---- MODULE Spec2Model ----
(***************************************************************************)
(* Byzantine fault-injection proxy (heijiLee/Byzantine-simulate).          *)
(*                                                                         *)
(* The module models one proxy session (proxy/engine/session.go): two      *)
(* multiplexed connections, the per-frame handlers of both directions, the *)
(* trigger, the hook pipeline (delay / drop / duplicate), the Byzantine    *)
(* mutator (cometbft/adapter/byzantine.go), the wire codec helpers of the  *)
(* engine package and the run() life cycle with its error latch.           *)
(*                                                                         *)
(* Strings are sequences of one-character strings, byte strings are        *)
(* sequences of 0..255, big.Int values are three limbs in base 2^31.       *)
(***************************************************************************)
EXTENDS Integers, Sequences, FiniteSets, TLC

(***************************************************************************)
(* Integers: math/big values and the widths strconv.ParseInt checks.       *)
(***************************************************************************)

\* math.MaxInt32, the largest value strconv.ParseInt(s, 10, 32) accepts;
\* also the largest limb of a BigInt below.
MaxInt32 == 2147483647

\* A big.Int is <<l0, l1, l2>> with value l2*2^62 + l1*2^31 + l0,
\* 0 <= l0, l1 <= MaxInt32 and l2 a (small) signed integer.
Big(n) == <<n, 0, 0>>

\* math.MaxInt64 = 2^63 - 1
MaxInt64Big == <<MaxInt32, MaxInt32, 1>>

\* One limb plus a signed offset |off| <= MaxInt32: <<limb, carry>>.
AddLimb(l, off) ==
  IF off >= 0
    THEN IF l > MaxInt32 - off
           THEN <<l - (MaxInt32 - off) - 1, 1>>
           ELSE <<l + off, 0>>
    ELSE IF l + off < 0
           THEN <<((l + off) + MaxInt32) + 1, -1>>
           ELSE <<l + off, 0>>

\* new(big.Int).Add(value, big.NewInt(offset))
\* The carry of the low limb goes into the middle one, then the top.
BigCarry(x, a) == <<a[1], AddLimb(x[2], a[2])[1], x[3] + AddLimb(x[2], a[2])[2]>>

BigAdd(x, off) == BigCarry(x, AddLimb(x[1], off))

\* strconv.ParseInt(decimal, 10, 32) succeeds: -2^31 <= value <= 2^31 - 1
FitsInt32(x) == \/ (x[3] = 0 /\ x[2] = 0)
                \/ (x[3] = -1 /\ x[2] = MaxInt32)

\* strconv.ParseInt(decimal, 10, 64) succeeds: -2^63 <= value <= 2^63 - 1
FitsInt64(x) == x[3] \in {-2, -1, 0, 1}

(***************************************************************************)
(* Strings and byte strings.                                               *)
(***************************************************************************)

HexDigits == <<"0","1","2","3","4","5","6","7","8","9","a","b","c","d","e","f">>

B64Chars ==
  <<"A","B","C","D","E","F","G","H","I","J","K","L","M","N","O","P","Q","R","S",
    "T","U","V","W","X","Y","Z","a","b","c","d","e","f","g","h","i","j","k","l",
    "m","n","o","p","q","r","s","t","u","v","w","x","y","z","0","1","2","3","4",
    "5","6","7","8","9","+","/">>

\* Index (0-based) of c in the sequence s, or -1.
IndexOf(s, c) ==
  IF \E i \in 1..Len(s) : s[i] = c
    THEN (CHOOSE i \in 1..Len(s) : s[i] = c) - 1
    ELSE -1

\* The byte of a one-character string ([]byte(value) for ASCII text).
AsciiAt(c, i) ==
  IF i >= 0 /\ i <= 25 THEN 65 + i
  ELSE IF i >= 26 /\ i <= 51 THEN 97 + (i - 26)
  ELSE IF i >= 52 /\ i <= 61 THEN 48 + (i - 52)
  ELSE IF c = "+" THEN 43
  ELSE IF c = "/" THEN 47
  ELSE IF c = "-" THEN 45
  ELSE IF c = "=" THEN 61
  ELSE 63

Ascii(c) == AsciiAt(c, IndexOf(B64Chars, c))

RECURSIVE AsciiBytes(_)
AsciiBytes(s) ==
  IF s = <<>> THEN <<>> ELSE <<Ascii(Head(s))>> \o AsciiBytes(Tail(s))

\* hex.EncodeToString
RECURSIVE HexEncode(_)
HexEncode(b) ==
  IF b = <<>> THEN <<>>
  ELSE <<HexDigits[(Head(b) \div 16) + 1], HexDigits[(Head(b) % 16) + 1]>>
         \o HexEncode(Tail(b))

\* Value of a hex digit (either case), or -1.
HexValAt(i, u) == IF i >= 0 THEN i ELSE IF u >= 0 THEN 10 + u ELSE -1

HexVal(c) == HexValAt(IndexOf(HexDigits, c), IndexOf(<<"A","B","C","D","E","F">>, c))

\* hex.DecodeString returns no error
HexValid(s) == /\ Len(s) % 2 = 0
               /\ \A i \in 1..Len(s) : HexVal(s[i]) >= 0

RECURSIVE HexDecode(_)
HexDecode(s) ==
  IF Len(s) < 2 THEN <<>>
  ELSE <<HexVal(s[1]) * 16 + HexVal(s[2])>> \o HexDecode(SubSeq(s, 3, Len(s)))

\* strings.TrimPrefix(value, "0x")
TrimPrefix0x(s) ==
  IF Len(s) >= 2 /\ s[1] = "0" /\ s[2] = "x" THEN SubSeq(s, 3, Len(s)) ELSE s

\* base64.StdEncoding.EncodeToString
RECURSIVE B64Encode(_)
B64Encode(b) ==
  IF b = <<>> THEN <<>>
  ELSE IF Len(b) = 1 THEN
    <<B64Chars[(b[1] \div 4) + 1], B64Chars[((b[1] % 4) * 16) + 1], "=", "=">>
  ELSE IF Len(b) = 2 THEN
    <<B64Chars[(b[1] \div 4) + 1],
      B64Chars[((b[1] % 4) * 16 + (b[2] \div 16)) + 1],
      B64Chars[((b[2] % 16) * 4) + 1], "=">>
  ELSE
    <<B64Chars[(b[1] \div 4) + 1],
      B64Chars[((b[1] % 4) * 16 + (b[2] \div 16)) + 1],
      B64Chars[((b[2] % 16) * 4 + (b[3] \div 64)) + 1],
      B64Chars[(b[3] % 64) + 1]>> \o B64Encode(SubSeq(b, 4, Len(b)))

\* Number of trailing "=" of s (0, 1 or 2 in valid input).
B64Pad(s) ==
  IF Len(s) >= 2 /\ s[Len(s)] = "=" /\ s[Len(s) - 1] = "=" THEN 2
  ELSE IF Len(s) >= 1 /\ s[Len(s)] = "=" THEN 1 ELSE 0

\* base64.StdEncoding.DecodeString returns no error
B64Valid(s) ==
  /\ Len(s) % 4 = 0
  /\ \A i \in 1..(Len(s) - B64Pad(s)) : IndexOf(B64Chars, s[i]) >= 0

\* The six bits of a base64 character ("=" pads with zero bits).
B64Val(c) == IF c = "=" THEN 0 ELSE IndexOf(B64Chars, c)

\* The bytes of one group of four characters with the values v1..v4.
B64Group(s, v1, v2, v3, v4) ==
  IF s[3] = "=" THEN <<v1 * 4 + (v2 \div 16)>>
  ELSE IF s[4] = "=" THEN <<v1 * 4 + (v2 \div 16), (v2 % 16) * 16 + (v3 \div 4)>>
  ELSE <<v1 * 4 + (v2 \div 16), (v2 % 16) * 16 + (v3 \div 4), (v3 % 4) * 64 + v4>>

RECURSIVE B64Decode(_)
B64Decode(s) ==
  IF Len(s) < 4 THEN <<>>
  ELSE B64Group(s, B64Val(s[1]), B64Val(s[2]), B64Val(s[3]), B64Val(s[4]))
         \o B64Decode(SubSeq(s, 5, Len(s)))

\* strings.ToLower on the ASCII letters
ToLowerAt(c, i) == IF i >= 0 /\ i <= 25 THEN B64Chars[i + 27] ELSE c

ToLowerChar(c) == ToLowerAt(c, IndexOf(B64Chars, c))

ToLower(s) == [i \in 1..Len(s) |-> ToLowerChar(s[i])]

(***************************************************************************)
(* Canonical model (message/abstraction) and the CometBFT adapter types.   *)
(***************************************************************************)

MsgTypeProposal  == <<"p","r","o","p","o","s","a","l">>
MsgTypeVote      == <<"v","o","t","e">>
MsgTypePrevote   == <<"p","r","e","v","o","t","e">>
MsgTypePrecommit == <<"p","r","e","c","o","m","m","i","t">>
MsgTypeBlock     == <<"b","l","o","c","k">>
MsgTypeNewView   == <<"n","e","w","_","v","i","e","w">>

\* Native message type names of the adapter message.
NativeProposal == <<"P","r","o","p","o","s","a","l">>
NativeVote     == <<"V","o","t","e">>

\* cmtproto.PrevoteType, PrecommitType, ProposalType
PrevoteType   == 1
PrecommitType == 2
ProposalType  == 32

\* A nil *big.Int.
NilBig == <<>>

\* The zero time.Time (IsZero); timestamps are integers in milliseconds.
ZeroTime == 0

\* abstraction.CanonicalMessage (the fields the CometBFT pipeline carries).
Canonical(type, height, round, ts, hash, prev, proposer, validator, sig) ==
  [Type |-> type, Height |-> height, Round |-> round, Timestamp |-> ts,
   BlockHash |-> hash, PrevHash |-> prev, Proposer |-> proposer,
   Validator |-> validator, Signature |-> sig]

\* adapter.ByzantineAction
ByzantineActionNone           == "none"
ByzantineActionDoubleVote     == "double_vote"
ByzantineActionDoubleProposal == "double_proposal"
ByzantineActionAlterValidator == "alter_validator"
ByzantineActionDropSignature  == "drop_signature"
ByzantineActionTimestampSkew  == "timestamp_skew"

\* adapter.ByzantineOptions
ByzantineOptions(blockHash, prevHash, sig, validator, roundOff, heightOff, shift) ==
  [AlternateBlockHash |-> blockHash, AlternatePrevHash |-> prevHash,
   AlternateSignature |-> sig, AlternateValidator |-> validator,
   RoundOffset |-> roundOff, HeightOffset |-> heightOff,
   TimestampShift |-> shift]

(***************************************************************************)
(* Byzantine mutator (cometbft/adapter/byzantine.go).                      *)
(***************************************************************************)

ZeroHash64 == [i \in 1..64 |-> "0"]

\* Largest index of s holding one of 0, 1, a, A, f, F, or 0 if none.
LastPerturbable(s) ==
  LET idx == {i \in 1..Len(s) : s[i] \in {"0", "1", "a", "A", "f", "F"}}
  IN  IF idx = {} THEN 0 ELSE CHOOSE i \in idx : \A j \in idx : j <= i

PerturbChar(c) ==
  IF c = "0" THEN "1"
  ELSE IF c = "1" THEN "0"
  ELSE IF c \in {"a", "A"} THEN "b"
  ELSE "e"

\* The loop of chooseAlternateHash stopped at index i (0: it ran out).
PerturbAt(original, i) ==
  IF i = 0 THEN original \o <<"0">>
  ELSE [original EXCEPT ![i] = PerturbChar(@)]

\* The original is returned when no override is given.
keepOriginalHash(original, provided) == IF provided # <<>> THEN provided ELSE original

chooseAlternateHash(original, provided) ==
  IF provided # <<>> THEN provided
  ELSE IF original = <<>> THEN ZeroHash64
  ELSE PerturbAt(original, LastPerturbable(original))

\* A clone is a new value equal to its source (TLA+ values have no identity).
cloneCanonicalMessage(msg) == msg

shiftBigInt(value, offset) ==
  IF offset = 0 THEN value
  ELSE IF value = NilBig THEN BigAdd(Big(0), offset)
  ELSE BigAdd(value, offset)

ShiftHeight(target, opts) ==
  IF opts.HeightOffset # 0
    THEN [target EXCEPT !.Height = shiftBigInt(@, opts.HeightOffset)]
    ELSE target

ShiftRound(target, opts) ==
  IF opts.RoundOffset # 0
    THEN [target EXCEPT !.Round = shiftBigInt(@, opts.RoundOffset)]
    ELSE target

ShiftTimestamp(target, opts) ==
  IF opts.TimestampShift # 0
    THEN [target EXCEPT !.Timestamp = @ + opts.TimestampShift]
    ELSE target

applyCommonMutations(target, opts) ==
  ShiftTimestamp(ShiftRound(ShiftHeight(target, opts), opts), opts)

ensureTimestampProgress(mutated, original) ==
  IF original = ZeroTime THEN mutated
  ELSE IF mutated.Timestamp = original
    THEN [mutated EXCEPT !.Timestamp = mutated.Timestamp + 1]
    ELSE mutated

\* Results of the mutator: an error and no outputs, or the outputs.
MutErr == [err |-> TRUE, out |-> <<>>]
MutOk(outs) == [err |-> FALSE, out |-> outs]

IsVoteType(t) == t \in {MsgTypePrevote, MsgTypePrecommit, MsgTypeVote}

\* mutated.BlockHash = chooseAlternateHash(msg.BlockHash, opts.AlternateBlockHash)
WithAlternateHash(mutated, msg, opts) ==
  [mutated EXCEPT !.BlockHash = chooseAlternateHash(msg.BlockHash, opts.AlternateBlockHash)]

\* if opts.AlternateSignature != "" { mutated.Signature = opts.AlternateSignature }
WithAlternateSignature(mutated, opts) ==
  IF opts.AlternateSignature # <<>>
    THEN [mutated EXCEPT !.Signature = opts.AlternateSignature]
    ELSE mutated

\* applyCommonMutations(mutated, opts); ensureTimestampProgress(mutated, msg.Timestamp)
Finish(mutated, msg, opts) ==
  ensureTimestampProgress(applyCommonMutations(mutated, opts), msg.Timestamp)

applyDoubleVoteMutation(msg, opts) ==
  IF ~IsVoteType(msg.Type) THEN MutErr
  ELSE MutOk(<<cloneCanonicalMessage(msg),
               Finish(WithAlternateSignature(
                        WithAlternateHash(cloneCanonicalMessage(msg), msg, opts), opts),
                      msg, opts)>>)

\* The previous hash of the second proposal.
WithAlternatePrevHash(mutated, msg, opts) ==
  IF opts.AlternatePrevHash # <<>>
    THEN [mutated EXCEPT !.PrevHash = opts.AlternatePrevHash]
    ELSE IF mutated.PrevHash = msg.PrevHash
      THEN [mutated EXCEPT !.PrevHash = chooseAlternateHash(msg.PrevHash, <<>>)]
      ELSE mutated

applyDoubleProposalMutation(msg, opts) ==
  IF msg.Type # MsgTypeProposal THEN MutErr
  ELSE MutOk(<<cloneCanonicalMessage(msg),
               Finish(WithAlternateSignature(
                        WithAlternatePrevHash(
                          WithAlternateHash(cloneCanonicalMessage(msg), msg, opts),
                          msg, opts), opts),
                      msg, opts)>>)

applyAlterValidatorMutation(msg, opts) ==
  IF opts.AlternateValidator = <<>> THEN MutErr
  ELSE IF IsVoteType(msg.Type) THEN
    MutOk(<<Finish([cloneCanonicalMessage(msg) EXCEPT !.Validator = opts.AlternateValidator],
                   msg, opts)>>)
  ELSE IF msg.Type = MsgTypeProposal THEN
    MutOk(<<Finish([cloneCanonicalMessage(msg) EXCEPT !.Proposer = opts.AlternateValidator],
                   msg, opts)>>)
  ELSE MutErr

applyDropSignatureMutation(msg, opts) ==
  MutOk(<<Finish([cloneCanonicalMessage(msg) EXCEPT !.Signature = <<>>], msg, opts)>>)

applyTimestampSkewMutation(msg, opts) ==
  IF opts.TimestampShift = 0 THEN MutErr
  ELSE MutOk(<<Finish(cloneCanonicalMessage(msg), msg, opts)>>)

\* A nil *CanonicalMessage.
NilCanonical == [nil |-> TRUE]

ApplyByzantineCanonical(msg, action, opts) ==
  IF msg = NilCanonical THEN MutErr
  ELSE IF action = ByzantineActionNone THEN MutOk(<<cloneCanonicalMessage(msg)>>)
  ELSE IF action = ByzantineActionDoubleVote THEN applyDoubleVoteMutation(msg, opts)
  ELSE IF action = ByzantineActionDoubleProposal THEN applyDoubleProposalMutation(msg, opts)
  ELSE IF action = ByzantineActionAlterValidator THEN applyAlterValidatorMutation(msg, opts)
  ELSE IF action = ByzantineActionDropSignature THEN applyDropSignatureMutation(msg, opts)
  ELSE IF action = ByzantineActionTimestampSkew THEN applyTimestampSkewMutation(msg, opts)
  ELSE MutErr

(***************************************************************************)
(* Wire messages and the codec helpers of the engine package.              *)
(*                                                                         *)
(* A frame payload is represented by the consensus message it encodes      *)
(* (protobuf encoding is injective on these messages); "garbage" is a      *)
(* payload that does not unmarshal, "other" a consensus message that is    *)
(* neither a Proposal nor a Vote, "emptyvote" / "emptyproposal" a wrapper  *)
(* whose inner message is absent.  A decimal string is represented by the  *)
(* integer it denotes; strconv.ParseInt is its range check.                *)
(***************************************************************************)

stateChannelID       == 32
dataChannelID        == 33
voteChannelID        == 34
voteSetBitsChannelID == 35
mempoolChannelID     == 48
evidenceChannelID    == 56

consensusChannelSet ==
  {stateChannelID, dataChannelID, voteChannelID, voteSetBitsChannelID}

isConsensusChannel(chID) == chID \in consensusChannelSet

\* consensuspb.Message with the fields the engine reads and writes.
Wire(kind, vtype, height, round, ts, hash, validator, index, sig) ==
  [kind |-> kind, vtype |-> vtype, height |-> height, round |-> round,
   ts |-> ts, hash |-> hash, validator |-> validator, index |-> index,
   sig |-> sig]

\* adapter.CometBFTConsensusMessage as the engine fills and reads it.
Adapter(msgType, vtype, height, round, ts, hash, prev, proposer, validator, index, sig) ==
  [MessageType |-> msgType, Type |-> vtype, Height |-> height, Round |-> round,
   Timestamp |-> ts, Hash |-> hash, PrevHash |-> prev,
   ProposerAddress |-> proposer, ValidatorAddress |-> validator,
   ValidatorIndex |-> index, Signature |-> sig]

NoCanonical == Canonical(<<>>, NilBig, NilBig, ZeroTime, <<>>, <<>>, <<>>, <<>>, <<>>)
NoAdapter == Adapter(<<>>, 0, NilBig, NilBig, ZeroTime, <<>>, <<>>, <<>>, <<>>, 0, <<>>)
NoWire == Wire("none", 0, NilBig, NilBig, ZeroTime, <<>>, <<>>, 0, <<>>)

\* msg.Unmarshal(payload) fails
decodeConsensusMessage(payload) ==
  IF payload.kind = "garbage" THEN [err |-> TRUE, msg |-> NoWire]
  ELSE [err |-> FALSE, msg |-> payload]

encodeBase64(b) == IF Len(b) = 0 THEN <<>> ELSE B64Encode(b)

hexDecodeOrCopy(value) ==
  IF value = <<>> THEN <<>>
  ELSE IF HexValid(TrimPrefix0x(value)) THEN HexDecode(TrimPrefix0x(value))
  ELSE AsciiBytes(value)

decodeString(value) ==
  IF value = <<>> THEN <<>>
  ELSE IF B64Valid(value) THEN B64Decode(value)
  ELSE hexDecodeOrCopy(value)

decodeHexString(value) ==
  IF value = <<>> THEN <<>>
  ELSE IF HexValid(TrimPrefix0x(value)) THEN HexDecode(TrimPrefix0x(value))
  ELSE AsciiBytes(value)

\* ensureTime(ts) with now the reading of the clock
ensureTime(ts, now) == IF ts = ZeroTime THEN now ELSE ts

proposalToAdapter(p) ==
  Adapter(NativeProposal, 0, p.height, p.round, p.ts, HexEncode(p.hash),
          <<>>, <<>>, <<>>, 0, encodeBase64(p.sig))

voteToAdapter(v) ==
  Adapter(NativeVote, v.vtype, v.height, v.round, v.ts, HexEncode(v.hash),
          <<>>, <<>>, HexEncode(v.validator), v.index, encodeBase64(v.sig))

\* err is "none", "unsupported" (errUnsupportedMessage) or "error".
adapterMessageFromConsensus(msg) ==
  IF msg.kind = "proposal" THEN [err |-> "none", msg |-> proposalToAdapter(msg)]
  ELSE IF msg.kind = "emptyproposal" THEN [err |-> "error", msg |-> NoAdapter]
  ELSE IF msg.kind = "vote" THEN [err |-> "none", msg |-> voteToAdapter(msg)]
  ELSE IF msg.kind = "emptyvote" THEN [err |-> "error", msg |-> NoAdapter]
  ELSE [err |-> "unsupported", msg |-> NoAdapter]

protoFromAdapterMessage(msg, now) ==
  IF ToLower(msg.MessageType) = MsgTypeProposal THEN
    IF ~FitsInt64(msg.Height) \/ ~FitsInt32(msg.Round)
      THEN [err |-> TRUE, msg |-> NoWire]
      ELSE [err |-> FALSE,
            msg |-> Wire("proposal", ProposalType, msg.Height, msg.Round,
                         ensureTime(msg.Timestamp, now), hexDecodeOrCopy(msg.Hash),
                         <<>>, 0, decodeString(msg.Signature))]
  ELSE IF ToLower(msg.MessageType) = MsgTypeVote THEN
    IF ~FitsInt64(msg.Height) \/ ~FitsInt32(msg.Round)
      THEN [err |-> TRUE, msg |-> NoWire]
      ELSE [err |-> FALSE,
            msg |-> Wire("vote", msg.Type, msg.Height, msg.Round,
                         ensureTime(msg.Timestamp, now), hexDecodeOrCopy(msg.Hash),
                         decodeHexString(msg.ValidatorAddress), msg.ValidatorIndex,
                         decodeString(msg.Signature))]
  ELSE [err |-> TRUE, msg |-> NoWire]

\* json.Unmarshal(raw.Payload) of a payload the mapper marshalled, then
\* protoFromAdapterMessage.
rawToConsensusMessage(raw, now) == protoFromAdapterMessage(raw, now)

(***************************************************************************)
(* CometBFT mapper: ToCanonical / FromCanonical on the adapter message.    *)
(***************************************************************************)

\* Proposal -> proposal; Vote subtype 1 -> prevote, 2 -> precommit,
\* otherwise the generic vote.
mapMessageType(msg) ==
  IF msg.MessageType = NativeProposal THEN MsgTypeProposal
  ELSE IF msg.Type = PrevoteType THEN MsgTypePrevote
  ELSE IF msg.Type = PrecommitType THEN MsgTypePrecommit
  ELSE MsgTypeVote

ToCanonical(msg) ==
  Canonical(mapMessageType(msg), msg.Height, msg.Round, msg.Timestamp, msg.Hash,
            msg.PrevHash, msg.ProposerAddress, msg.ValidatorAddress, msg.Signature)

GetSupportedTypes ==
  {MsgTypeProposal, MsgTypePrevote, MsgTypePrecommit, MsgTypeBlock}

\* err: UnsupportedType when the type is not supported.
FromCanonical(c) ==
  IF c.Type = MsgTypeProposal THEN
    [err |-> FALSE,
     raw |-> Adapter(NativeProposal, 0, c.Height, c.Round, c.Timestamp, c.BlockHash,
                     c.PrevHash, c.Proposer, <<>>, 0, c.Signature)]
  ELSE IF c.Type = MsgTypePrevote THEN
    [err |-> FALSE,
     raw |-> Adapter(NativeVote, PrevoteType, c.Height, c.Round, c.Timestamp,
                     c.BlockHash, <<>>, <<>>, c.Validator, 0, c.Signature)]
  ELSE IF c.Type = MsgTypePrecommit THEN
    [err |-> FALSE,
     raw |-> Adapter(NativeVote, PrecommitType, c.Height, c.Round, c.Timestamp,
                     c.BlockHash, <<>>, <<>>, c.Validator, 0, c.Signature)]
  ELSE [err |-> TRUE, raw |-> NoAdapter]

\* canonicalFromConsensus: adapter message, JSON, mapper.ToCanonical
CanonicalOf(a) ==
  IF a.err # "none" THEN [err |-> a.err, canonical |-> NoCanonical]
  ELSE [err |-> "none", canonical |-> ToCanonical(a.msg)]

canonicalFromConsensus(msg) == CanonicalOf(adapterMessageFromConsensus(msg))

RECURSIVE FromCanonicalAll(_)
\* One more raw message h in front of the raw messages t.
RawsCons(h, t) ==
  IF h.err \/ t.err THEN [err |-> TRUE, raws |-> <<>>]
  ELSE [err |-> FALSE, raws |-> <<h.raw>> \o t.raws]

FromCanonicalAll(canonicals) ==
  IF canonicals = <<>> THEN [err |-> FALSE, raws |-> <<>>]
  ELSE RawsCons(FromCanonical(Head(canonicals)), FromCanonicalAll(Tail(canonicals)))

\* The loop of FromCanonicalByzantine over the mutator's result m.
FromCanonicalOutputs(m) ==
  IF m.err THEN [err |-> TRUE, raws |-> <<>>]
  ELSE FromCanonicalAll(m.out)

FromCanonicalByzantine(msg, action, opts) ==
  FromCanonicalOutputs(ApplyByzantineCanonical(msg, action, opts))

(***************************************************************************)
(* Configuration (proxy/engine/config.go).                                 *)
(***************************************************************************)

DirectionUpstream   == "DirectionUpstream"
DirectionDownstream == "DirectionDownstream"
DirectionBoth       == "DirectionBoth"

\* Every direction counts as upstream.
ShouldMutateUpstreamAlways(d) == d \in {DirectionUpstream, DirectionDownstream, DirectionBoth}

ShouldMutateUpstream(d) == d = DirectionUpstream \/ d = DirectionBoth

ShouldMutateDownstream(d) == d = DirectionDownstream \/ d = DirectionBoth

\* A nil *int64 of the Trigger.
NilInt == <<>>

Trigger(height, round, step) == [Height |-> height, Round |-> round, Step |-> step]

\* The step predicate is not evaluated.
TriggerMatchesNoStep(t, msg) ==
  IF t.Height # NilInt /\ (msg.Height = NilBig \/ msg.Height # t.Height) THEN FALSE
  ELSE IF t.Round # NilInt /\ (msg.Round = NilBig \/ msg.Round # t.Round) THEN FALSE
  ELSE TRUE

\* Trigger.Matches for a non-nil canonical message
TriggerMatches(t, msg) ==
  IF t.Height # NilInt /\ (msg.Height = NilBig \/ msg.Height # t.Height) THEN FALSE
  ELSE IF t.Round # NilInt /\ (msg.Round = NilBig \/ msg.Round # t.Round) THEN FALSE
  ELSE IF t.Step # <<>> /\ ToLower(msg.Type) # t.Step THEN FALSE
  ELSE TRUE

Hooks(delay, drop, duplicate) == [Delay |-> delay, Drop |-> drop, Duplicate |-> duplicate]

(***************************************************************************)
(* Metrics (proxy/engine/metrics.go).                                      *)
(***************************************************************************)

NewMetrics == [mutated |-> 0, dropped |-> 0, duplicated |-> 0, delayed |-> 0]

\* The counter grows by one per frame, not by the number of Sends.
IncMutatedByOne(m, delta) == IF delta # 0 THEN [m EXCEPT !.mutated = @ + 1] ELSE m

IncMutated(m, delta) == IF delta # 0 THEN [m EXCEPT !.mutated = @ + delta] ELSE m

IncDropped(m) == [m EXCEPT !.dropped = @ + 1]

IncDuplicated(m, count) == IF count > 0 THEN [m EXCEPT !.duplicated = @ + count] ELSE m

\* An Add that is lost.
IncDelayedLost(m) == m

IncDelayed(m) == [m EXCEPT !.delayed = @ + 1]

(***************************************************************************)
(* Bounds and the inputs of the model.                                     *)
(***************************************************************************)

\* Inbound frames delivered to the session over both connections.
MaxFrames == 2

\* Invocations of the connections' onError callbacks.
MaxErrors == 2

\* flowDirection: the connection a frame arrives on.
directionUpstream   == "upstream"
directionDownstream == "downstream"
Dirs == {directionUpstream, directionDownstream}

\* The opposite connection (the target of a frame arriving on d).
Opposite(d) == IF d = directionUpstream THEN directionDownstream ELSE directionUpstream

\* Readings of time.Now().
Clock == {900}

PrevoteA    == Wire("vote", PrevoteType, Big(5), Big(1), 100, <<170>>, <<1>>, 7, <<9>>)
PrevoteMax  == Wire("vote", PrevoteType, Big(5), Big(MaxInt32), 100, <<34>>, <<1>>, 7, <<9>>)
ProposalE   == Wire("proposal", ProposalType, Big(7), Big(1), 200, <<>>, <<>>, 0, <<9>>)
EmptyVote   == Wire("emptyvote", 0, NilBig, NilBig, ZeroTime, <<>>, <<>>, 0, <<>>)
OtherMsg    == Wire("other", 0, NilBig, NilBig, ZeroTime, <<>>, <<>>, 0, <<>>)
Garbage     == Wire("garbage", 0, NilBig, NilBig, ZeroTime, <<>>, <<>>, 0, <<>>)

Frame(ch, payload) == [ch |-> ch, payload |-> payload]

InFrames ==
  {Frame(voteChannelID, PrevoteA), Frame(voteChannelID, PrevoteMax),
   Frame(dataChannelID, ProposalE), Frame(voteChannelID, Garbage),
   Frame(mempoolChannelID, PrevoteA)}

Directions == {DirectionUpstream, DirectionDownstream, DirectionBoth}

Triggers ==
  {Trigger(NilInt, NilInt, <<>>),
   Trigger(NilInt, NilInt, MsgTypePrevote),
   Trigger(Big(5), Big(1), <<>>)}

HookSets == {Hooks(dl, dr, du) : dl \in {0, 1}, dr \in BOOLEAN, du \in BOOLEAN}

Actions ==
  {ByzantineActionNone, ByzantineActionDoubleVote, ByzantineActionDoubleProposal,
   ByzantineActionAlterValidator}

ZeroOptions == ByzantineOptions(<<>>, <<>>, <<>>, <<>>, 0, 0, 0)

\* The overrides of the double-vote test, with the block hash override "AA".
FullOptions ==
  ByzantineOptions(<<"A","A">>, <<"c","c">>, <<"s","2">>, <<"0","2">>, 1, 2, 2)

OptionSets == {ZeroOptions, FullOptions}

Config(direction, trigger, hooks, action, options) ==
  [Direction |-> direction, Trigger |-> trigger, Hooks |-> hooks,
   Action |-> action, Options |-> options]

Configs ==
  {Config(d, t, h, a, o) :
     d \in Directions, t \in Triggers, h \in HookSets, a \in Actions, o \in OptionSets}

\* errors
NoErr == <<>>
CtxCanceled == <<"context canceled">>

VARIABLES
  cfg,       \* s.cfg, immutable
  metrics,   \* s.metrics
  running,   \* connections whose receive routine runs
  full,      \* connections whose Send finds the channel's queue full
  pc,        \* per direction: where the handler of the current frame is
  cur,       \* per direction: the frame being handled and its canonical form
  rem,       \* per direction: mutator outputs not sent yet
  cnt,       \* per direction: the locals sent and duplicateCount
  recvd,     \* per direction: the frames delivered so far
  out,       \* per connection: the Send calls made on it
  ctx,       \* "live", or who cancelled first: "parent" or "error"
  err,       \* s.err
  nerr,      \* onError invocations so far
  runPc,     \* where run() is
  ret,       \* what run() returned
  ectx,      \* the context given to Engine.Run: "live" or "cancelled"
  ln,        \* the listener: "open" or "closed"
  enginePc,  \* where Engine.Run is
  eret,      \* what Engine.Run returns
  handler,   \* per accepted connection: where handleConnection is
  downSock,  \* per accepted connection: the downstream socket
  upSock,    \* per accepted connection: the upstream socket
  arg,       \* the arguments of a call of a library function
  res,       \* what the call returned, NoCall before it
  ce,        \* the ConsensusEngine of the simulator
  users,     \* the goroutines that share one Metrics, each with what it still does
  hist       \* per counter of the shared Metrics: the values it has held

\* The engine's own state.
engineVars == <<ectx, ln, enginePc, eret, handler, downSock, upSock>>

\* The state of one session.
sessionVars == <<cfg, metrics, running, full, pc, cur, rem, cnt, recvd, out, ctx, err, nerr, runPc, ret>>

\* The simulator's engine and the users of a shared Metrics, outside any
\* session.
simVars == <<ce, users, hist>>

\* A call of a function of the adapter packages, outside any session.
callVars == <<arg, res, simVars>>

\* No simulator and no shared Metrics is followed.
NoSim ==
  /\ ce = <<>>
  /\ users = <<>>
  /\ hist = <<>>

vars == <<sessionVars, engineVars, callVars>>

NoCall == <<>>

MaxConns == 2
Conns == 1..MaxConns

\* The engine while connection 1 runs its session; no library call is
\* followed.
EngineWithSession ==
  /\ ectx = "live"
  /\ ln = "open"
  /\ enginePc = "accept"
  /\ eret = NoErr
  /\ handler = [c \in Conns |-> IF c = 1 THEN "session" ELSE "none"]
  /\ downSock = [c \in Conns |-> IF c = 1 THEN "open" ELSE "none"]
  /\ upSock = [c \in Conns |-> IF c = 1 THEN "open" ELSE "none"]
  /\ arg = NoCall
  /\ res = NoCall
  /\ NoSim

NoCur == [frame |-> Frame(0, NoWire), canonical |-> NoCanonical]

\* The Send goes to the front of the queue.
forwardRawFirst(log, live, chID, payload, src, kind) ==
  <<[ch |-> chID, payload |-> payload, src |-> src, kind |-> kind, live |-> live]>> \o log

\* target.Send(chID, copy of payload): a record of the call.  src is the
\* position of the inbound frame in its direction's arrival order, kind is
\* "raw" (forwardRaw of the inbound payload), "out" (a mutator output) or
\* "dup" (its duplicate), live whether the target's routines were running.
forwardRaw(log, live, chID, payload, src, kind) ==
  Append(log, [ch |-> chID, payload |-> payload, src |-> src, kind |-> kind,
               live |-> live])

ShouldMutate(direction, d) ==
  IF d = directionUpstream THEN ShouldMutateUpstream(direction)
  ELSE ShouldMutateDownstream(direction)

\* session.applyByzantineAction
applyByzantineAction(c, canonical) ==
  IF c.Action = ByzantineActionNone
    THEN RawsCons(FromCanonical(canonical), [err |-> FALSE, raws |-> <<>>])
    ELSE FromCanonicalByzantine(canonical, c.Action, c.Options)

(***************************************************************************)
(* The session (proxy/engine/session.go).                                  *)
(***************************************************************************)

Init ==
  /\ cfg \in Configs
  /\ metrics = NewMetrics
  /\ running = {}
  /\ full = {}
  /\ pc = [d \in Dirs |-> "idle"]
  /\ cur = [d \in Dirs |-> NoCur]
  /\ rem = [d \in Dirs |-> <<>>]
  /\ cnt = [d \in Dirs |-> [sent |-> 0, dup |-> 0]]
  /\ recvd = [d \in Dirs |-> <<>>]
  /\ out = [d \in Dirs |-> <<>>]
  /\ ctx = "live"
  /\ err = NoErr
  /\ nerr = 0
  /\ runPc = "startDownstream"
  /\ ret = NoErr
  /\ EngineWithSession

\* processConsensus up to the hooks: "error" (an error is returned to the
\* handler), "raw" (forwardRaw, nil returned) or "triggered".
AfterCanonical(c, can) ==
  IF can.err = "unsupported" THEN [outcome |-> "raw", canonical |-> NoCanonical]
  ELSE IF can.err # "none" THEN [outcome |-> "error", canonical |-> NoCanonical]
  ELSE IF ~TriggerMatches(c.Trigger, can.canonical)
    THEN [outcome |-> "raw", canonical |-> can.canonical]
  ELSE [outcome |-> "triggered", canonical |-> can.canonical]

\* A payload that does not unmarshal goes on to the hooks.
AfterDecodeIgnoringError(c, dec) ==
  IF dec.err THEN [outcome |-> "triggered", canonical |-> NoCanonical]
  ELSE AfterCanonical(c, canonicalFromConsensus(dec.msg))

AfterDecode(c, dec) ==
  IF dec.err THEN [outcome |-> "error", canonical |-> NoCanonical]
  ELSE AfterCanonical(c, canonicalFromConsensus(dec.msg))

BeforeHooks(c, payload) == AfterDecode(c, decodeConsensusMessage(payload))

\* handleUpstream / handleDownstream: "bypass" when the frame does not enter
\* processConsensus, else the outcome of BeforeHooks.
HandleFrame(c, d, f) ==
  IF ShouldMutate(c.Direction, d) /\ isConsensusChannel(f.ch)
    THEN BeforeHooks(c, f.payload)
    ELSE [outcome |-> "bypass", canonical |-> NoCanonical]

\* processConsensus after the delay: the drop hook, then the mutator.
AfterMutation(r) ==
  IF r.err THEN [next |-> "error", raws |-> <<>>]
  ELSE [next |-> "send", raws |-> r.raws]

\* The drop hook is not consulted.
AfterDelayNoDrop(c, canonical) == AfterMutation(applyByzantineAction(c, canonical))

AfterDelay(c, canonical) ==
  IF c.Hooks.Drop THEN [next |-> "drop", raws |-> <<>>]
  ELSE AfterMutation(applyByzantineAction(c, canonical))

\* Every Send is accepted.
LiveAlways(d) == TRUE

\* What target.Send returns to the handler of direction d.
Live(d) == Opposite(d) \in running /\ Opposite(d) \notin full

\* The handler of direction d goes back to waiting for the next frame.
Idle(d) ==
  /\ pc' = [pc EXCEPT ![d] = "idle"]
  /\ cur' = [cur EXCEPT ![d] = NoCur]
  /\ rem' = [rem EXCEPT ![d] = <<>>]
  /\ cnt' = [cnt EXCEPT ![d] = [sent |-> 0, dup |-> 0]]

\* The inbound frame is not forwarded.
SendNothing(d, f, src) == out' = out

\* The inbound frame is sent back on the connection it came from.
SendRawBack(d, f, src) ==
  out' = [out EXCEPT ![d] = forwardRaw(@, d \in running /\ d \notin full, f.ch, f.payload, src, "raw")]

\* forwardRaw(target, chID, payload) of the inbound frame.
SendRaw(d, f, src) ==
  out' = [out EXCEPT ![Opposite(d)] = forwardRaw(@, Live(d), f.ch, f.payload, src, "raw")]

\* The triggered frame f of direction d after the hooks came to h.
Proceed(d, f, canonical, src, h) ==
  IF h.next = "drop" THEN
    /\ metrics' = IncDropped(metrics)
    /\ Idle(d)
    /\ UNCHANGED out
  ELSE IF h.next = "error" THEN
    /\ SendRaw(d, f, src)
    /\ Idle(d)
    /\ UNCHANGED metrics
  ELSE
    /\ pc' = [pc EXCEPT ![d] = "send"]
    /\ cur' = [cur EXCEPT ![d] = [frame |-> f, canonical |-> canonical]]
    /\ rem' = [rem EXCEPT ![d] = h.raws]
    /\ cnt' = [cnt EXCEPT ![d] = [sent |-> 0, dup |-> 0]]
    /\ UNCHANGED <<metrics, out>>

\* Lines 137-146 for the triggered frame f of direction d.
Continue(d, f, canonical, src) ==
  Proceed(d, f, canonical, src, AfterDelay(cfg, canonical))

\* The drop hook is consulted before the delay hook.
HandleDropFirst(d, f, src, h) ==
  IF h.outcome # "triggered" THEN
    /\ SendRaw(d, f, src)
    /\ UNCHANGED <<metrics, pc, cur, rem, cnt>>
  ELSE IF cfg.Hooks.Delay > 0 /\ ~cfg.Hooks.Drop THEN
    /\ metrics' = IncDelayed(metrics)
    /\ pc' = [pc EXCEPT ![d] = "sleep"]
    /\ cur' = [cur EXCEPT ![d] = [frame |-> f, canonical |-> h.canonical]]
    /\ UNCHANGED <<rem, cnt, out>>
  ELSE Continue(d, f, h.canonical, src)

\* The handler of direction d on frame f, whose way to the hooks came to h.
Handle(d, f, src, h) ==
  IF h.outcome # "triggered" THEN
    /\ SendRaw(d, f, src)
    /\ UNCHANGED <<metrics, pc, cur, rem, cnt>>
  ELSE IF cfg.Hooks.Delay > 0 THEN
    /\ metrics' = IncDelayed(metrics)
    /\ pc' = [pc EXCEPT ![d] = "sleep"]
    /\ cur' = [cur EXCEPT ![d] = [frame |-> f, canonical |-> h.canonical]]
    /\ UNCHANGED <<rem, cnt, out>>
  ELSE Continue(d, f, h.canonical, src)

\* The receive routine of connection d delivers frame f to its handler.
Recv(d, f) ==
  /\ d \in running
  /\ pc[d] = "idle"
  /\ Len(recvd[directionUpstream]) + Len(recvd[directionDownstream]) < MaxFrames
  /\ recvd' = [recvd EXCEPT ![d] = Append(@, f)]
  /\ Handle(d, f, Len(recvd[d]) + 1, HandleFrame(cfg, d, f))
  /\ UNCHANGED <<callVars, engineVars, cfg, full, running, ctx, err, nerr, runPc, ret>>

\* time.Sleep(s.cfg.Hooks.Delay) returns.
Wake(d) ==
  /\ pc[d] = "sleep"
  /\ Continue(d, cur[d].frame, cur[d].canonical, Len(recvd[d]))
  /\ UNCHANGED <<callVars, engineVars, cfg, full, running, recvd, ctx, err, nerr, runPc, ret>>

\* One iteration of the loop over raws (lines 150-166).
\* target.Send of the output payload, and again under Hooks.Duplicate.
SendOutput(log, live, chID, payload, src, duplicate) ==
  IF duplicate
    THEN forwardRaw(forwardRaw(log, live, chID, payload, src, "out"),
                    live, chID, payload, src, "dup")
    ELSE forwardRaw(log, live, chID, payload, src, "out")

\* The iteration on the head of rem[d], which re-encoded to p.
Iterate(d, p, src) ==
  IF p.err THEN
    /\ SendRaw(d, cur[d].frame, src)
    /\ Idle(d)
  ELSE
    /\ out' = [out EXCEPT ![Opposite(d)] =
                 SendOutput(@, Live(d), cur[d].frame.ch, p.msg, src, cfg.Hooks.Duplicate)]
    /\ cnt' = [cnt EXCEPT ![d] =
                 IF cfg.Hooks.Duplicate
                   THEN [sent |-> @.sent + 2, dup |-> @.dup + 1]
                   ELSE [sent |-> @.sent + 1, dup |-> @.dup]]
    /\ rem' = [rem EXCEPT ![d] = Tail(@)]
    /\ pc' = [pc EXCEPT ![d] = IF Tail(rem[d]) = <<>> THEN "count" ELSE "send"]
    /\ UNCHANGED cur

SendOne(d) ==
  /\ pc[d] = "send"
  /\ \E now \in Clock : Iterate(d, rawToConsensusMessage(Head(rem[d]), now), Len(recvd[d]))
  /\ UNCHANGED <<callVars, engineVars, cfg, full, metrics, running, recvd, ctx, err, nerr, runPc, ret>>

\* Lines 168-175: the counters after the loop.
Count(d) ==
  /\ pc[d] = "count"
  /\ metrics' = IncDuplicated(IncMutated(metrics, cnt[d].sent), cnt[d].dup)
  /\ Idle(d)
  /\ UNCHANGED <<callVars, engineVars, cfg, full, running, recvd, out, ctx, err, nerr, runPc, ret>>

(***************************************************************************)
(* run(), the error latch and cancellation.                                *)
(***************************************************************************)

\* s.downstream.Start(): a freshly constructed MConnection starts.
StartDownstream ==
  /\ runPc = "startDownstream"
  /\ running' = running \cup {directionDownstream}
  /\ runPc' = "startUpstream"
  /\ UNCHANGED <<callVars, engineVars, cfg, full, metrics, pc, cur, rem, cnt, recvd, out, ctx, err, nerr, ret>>

\* s.upstream.Start(), the two defers, then <-s.ctx.Done()
StartUpstream ==
  /\ runPc = "startUpstream"
  /\ running' = running \cup {directionUpstream}
  /\ runPc' = "wait"
  /\ UNCHANGED <<callVars, engineVars, cfg, full, metrics, pc, cur, rem, cnt, recvd, out, ctx, err, nerr, ret>>

\* The context the session context derives from is cancelled.
ParentCancel ==
  /\ ctx = "live"
  /\ ctx' = "parent"
  /\ UNCHANGED <<callVars, engineVars, cfg, full, metrics, running, pc, cur, rem, cnt, recvd, out, err, nerr, runPc, ret>>

\* s.errOnce.Do: the latch is taken by the first non-nil error.
recordError(e) ==
  IF err = NoErr
    THEN /\ err' = e
         /\ ctx' = IF ctx = "live" THEN "error" ELSE ctx
    ELSE UNCHANGED <<err, ctx>>

\* The onError callback of connection d reports its n-th error.
ReportError(d) ==
  /\ runPc # "startDownstream"
  /\ d = directionUpstream => runPc # "startUpstream"
  /\ nerr < MaxErrors
  /\ nerr' = nerr + 1
  /\ recordError(<<d, nerr + 1>>)
  /\ UNCHANGED <<callVars, engineVars, cfg, full, metrics, running, pc, cur, rem, cnt, recvd, out, runPc, ret>>

\* <-s.ctx.Done() returns and run() picks its result.  When the parent
\* cancelled, the read of s.err is not ordered with a concurrent latch.
RunWake ==
  /\ runPc = "wait"
  /\ ctx # "live"
  /\ \E seen \in (IF ctx = "error" THEN {err} ELSE {err, NoErr}) :
       ret' = IF seen # NoErr THEN seen ELSE CtxCanceled
  /\ runPc' = "flushUpstream"
  /\ UNCHANGED <<callVars, engineVars, cfg, full, metrics, running, pc, cur, rem, cnt, recvd, out, ctx, err, nerr>>

\* defer s.upstream.FlushStop()
FlushStopUpstream ==
  /\ runPc = "flushUpstream"
  /\ running' = running \ {directionUpstream}
  /\ runPc' = "flushDownstream"
  /\ UNCHANGED <<callVars, engineVars, cfg, full, metrics, pc, cur, rem, cnt, recvd, out, ctx, err, nerr, ret>>

\* defer s.downstream.FlushStop(), then run() returns
FlushStopDownstream ==
  /\ runPc = "flushDownstream"
  /\ running' = running \ {directionDownstream}
  /\ runPc' = "returned"
  /\ UNCHANGED <<callVars, engineVars, cfg, full, metrics, pc, cur, rem, cnt, recvd, out, ctx, err, nerr, ret>>

Next ==
  \/ StartDownstream
  \/ StartUpstream
  \/ \E d \in Dirs, f \in InFrames : Recv(d, f)
  \/ \E d \in Dirs : Wake(d)
  \/ \E d \in Dirs : SendOne(d)
  \/ \E d \in Dirs : Count(d)

\* The session while its context is live.
Spec == Init /\ [][Next]_vars

\* Configurations of the sessions whose whole life is explored: both
\* directions selected, every frame triggered.
RunConfigs ==
  {Config(DirectionBoth, Trigger(NilInt, NilInt, <<>>), Hooks(dl, dr, FALSE), a, ZeroOptions) :
     dl \in {0, 1}, dr \in BOOLEAN,
     a \in {ByzantineActionNone, ByzantineActionDoubleVote}}

InitRun ==
  /\ cfg \in RunConfigs
  /\ metrics = NewMetrics
  /\ running = {}
  /\ full = {}
  /\ pc = [d \in Dirs |-> "idle"]
  /\ cur = [d \in Dirs |-> NoCur]
  /\ rem = [d \in Dirs |-> <<>>]
  /\ cnt = [d \in Dirs |-> [sent |-> 0, dup |-> 0]]
  /\ recvd = [d \in Dirs |-> <<>>]
  /\ out = [d \in Dirs |-> <<>>]
  /\ ctx = "live"
  /\ err = NoErr
  /\ nerr = 0
  /\ runPc = "startDownstream"
  /\ ret = NoErr
  /\ EngineWithSession

RunFrames ==
  {Frame(voteChannelID, PrevoteA), Frame(dataChannelID, ProposalE),
   Frame(voteChannelID, EmptyVote), Frame(stateChannelID, OtherMsg),
   Frame(voteChannelID, Garbage), Frame(mempoolChannelID, PrevoteA)}

NextRun ==
  \/ StartDownstream
  \/ StartUpstream
  \/ \E d \in Dirs, f \in RunFrames : Recv(d, f)
  \/ \E d \in Dirs : Wake(d)
  \/ \E d \in Dirs : SendOne(d)
  \/ \E d \in Dirs : Count(d)
  \/ ParentCancel
  \/ \E d \in Dirs : ReportError(d)
  \/ RunWake
  \/ FlushStopUpstream
  \/ FlushStopDownstream

\* The session from run() to its return, with cancellation and errors.
SpecRun == InitRun /\ [][NextRun]_vars

\* Sessions whose connections' send queues fill up: both directions selected,
\* every frame triggered.
FullConfigs ==
  {Config(DirectionBoth, Trigger(NilInt, NilInt, <<>>), Hooks(dl, FALSE, du), a, ZeroOptions) :
     dl \in {0, 1}, du \in BOOLEAN,
     a \in {ByzantineActionNone, ByzantineActionDoubleVote}}

InitFull ==
  /\ cfg \in FullConfigs
  /\ metrics = NewMetrics
  /\ running = {}
  /\ full = {}
  /\ pc = [d \in Dirs |-> "idle"]
  /\ cur = [d \in Dirs |-> NoCur]
  /\ rem = [d \in Dirs |-> <<>>]
  /\ cnt = [d \in Dirs |-> [sent |-> 0, dup |-> 0]]
  /\ recvd = [d \in Dirs |-> <<>>]
  /\ out = [d \in Dirs |-> <<>>]
  /\ ctx = "live"
  /\ err = NoErr
  /\ nerr = 0
  /\ runPc = "startDownstream"
  /\ ret = NoErr
  /\ EngineWithSession

FullFrames ==
  {Frame(voteChannelID, PrevoteA), Frame(mempoolChannelID, PrevoteA)}

\* The peer of connection d stops reading: the channels' send queues
\* (SendQueueCapacity) are full and Send on d returns false.
QueueFills(d) ==
  /\ d \in running
  /\ d \notin full
  /\ full' = full \cup {d}
  /\ UNCHANGED <<callVars, engineVars, cfg, metrics, running, pc, cur, rem, cnt, recvd, out, ctx, err, nerr, runPc, ret>>

\* The peer of connection d reads again.
QueueDrains(d) ==
  /\ d \in full
  /\ full' = full \ {d}
  /\ UNCHANGED <<callVars, engineVars, cfg, metrics, running, pc, cur, rem, cnt, recvd, out, ctx, err, nerr, runPc, ret>>

NextFull ==
  \/ StartDownstream
  \/ StartUpstream
  \/ \E d \in Dirs, f \in FullFrames : Recv(d, f)
  \/ \E d \in Dirs : Wake(d)
  \/ \E d \in Dirs : SendOne(d)
  \/ \E d \in Dirs : Count(d)
  \/ \E d \in Dirs : QueueFills(d)
  \/ \E d \in Dirs : QueueDrains(d)

\* The session with send queues that fill up and drain, while no connection
\* reports an error and the parent context stays live.
SpecFull == InitFull /\ [][NextFull]_vars

(***************************************************************************)
(* The engine (proxy/engine/engine.go).                                    *)
(***************************************************************************)

\* A non-temporary error of ln.Accept().
AcceptErr == <<"accept error">>

\* Engine.Run after net.Listen, in its accept loop; no connection yet.  The
\* session of each connection is followed through its stages only.
EngineListening ==
  /\ cfg = Config(DirectionBoth, Trigger(NilInt, NilInt, <<>>), Hooks(0, FALSE, FALSE),
                  ByzantineActionNone, ZeroOptions)
  /\ metrics = NewMetrics
  /\ running = {}
  /\ full = {}
  /\ pc = [d \in Dirs |-> "idle"]
  /\ cur = [d \in Dirs |-> NoCur]
  /\ rem = [d \in Dirs |-> <<>>]
  /\ cnt = [d \in Dirs |-> [sent |-> 0, dup |-> 0]]
  /\ recvd = [d \in Dirs |-> <<>>]
  /\ out = [d \in Dirs |-> <<>>]
  /\ ctx = "live"
  /\ err = NoErr
  /\ nerr = 0
  /\ runPc = "startDownstream"
  /\ ret = NoErr
  /\ ectx = "live"
  /\ ln = "open"
  /\ enginePc = "accept"
  /\ eret = NoErr
  /\ handler = [c \in Conns |-> "none"]
  /\ downSock = [c \in Conns |-> "none"]
  /\ upSock = [c \in Conns |-> "none"]

InitEngine ==
  /\ EngineListening
  /\ arg = NoCall
  /\ res = NoCall
  /\ NoSim

\* The context given to Run is cancelled.
EngineCancel ==
  /\ ectx = "live"
  /\ ectx' = "cancelled"
  /\ UNCHANGED <<callVars, sessionVars, ln, enginePc, eret, handler, downSock, upSock>>

\* The goroutine of lines 49-52: <-ctx.Done(), then ln.Close().
CloseListener ==
  /\ ectx = "cancelled"
  /\ ln = "open"
  /\ ln' = "closed"
  /\ UNCHANGED <<callVars, sessionVars, ectx, enginePc, eret, handler, downSock, upSock>>

\* Run leaves the accept loop with result e; the deferred function closes
\* the listener and then waits for the handlers.
LeaveLoop(e) ==
  /\ eret' = e
  /\ ln' = "closed"
  /\ enginePc' = "wait"

\* ln.Accept() returns connection c: wg.Add(1) and the handler goroutine.
Accept(c) ==
  /\ enginePc = "accept"
  /\ ln = "open"
  /\ handler[c] = "none"
  /\ \A b \in Conns : b < c => handler[b] # "none"
  /\ handler' = [handler EXCEPT ![c] = "handshakeDownstream"]
  /\ downSock' = [downSock EXCEPT ![c] = "open"]
  /\ UNCHANGED <<callVars, sessionVars, ectx, ln, enginePc, eret, upSock>>

\* ln.Accept() fails on the closed listener (lines 56-59).
AcceptClosed ==
  /\ enginePc = "accept"
  /\ ln = "closed"
  /\ LeaveLoop(CtxCanceled)
  /\ UNCHANGED <<callVars, sessionVars, ectx, handler, downSock, upSock>>

\* ln.Accept() fails with a net.Error; temporary says what Temporary() is
\* (lines 56-66 and 79-84).
AcceptError(temporary) ==
  /\ enginePc = "accept"
  /\ ln = "open"
  /\ IF ectx = "cancelled" THEN LeaveLoop(CtxCanceled)
     ELSE IF temporary THEN UNCHANGED <<eret, ln, enginePc>>
     ELSE LeaveLoop(AcceptErr)
  /\ UNCHANGED <<callVars, sessionVars, ectx, handler, downSock, upSock>>

\* handleConnection of connection c returns: defer downstreamConn.Close()
\* and wg.Done().
Return(c) ==
  /\ handler' = [handler EXCEPT ![c] = "done"]
  /\ downSock' = [downSock EXCEPT ![c] = "closed"]

\* MakeSecretConnection(downstreamConn): the peer answers, or the handshake
\* fails (lines 92-95).
HandshakeDownstream(c, ok) ==
  /\ handler[c] = "handshakeDownstream"
  /\ IF ok THEN /\ handler' = [handler EXCEPT ![c] = "dial"]
                /\ UNCHANGED downSock
     ELSE Return(c)
  /\ UNCHANGED <<callVars, sessionVars, ectx, ln, enginePc, eret, upSock>>

\* net.DialTimeout to the upstream address (lines 97-100).
DialUpstream(c, ok) ==
  /\ handler[c] = "dial"
  /\ IF ok THEN /\ handler' = [handler EXCEPT ![c] = "handshakeUpstream"]
                /\ upSock' = [upSock EXCEPT ![c] = "open"]
                /\ UNCHANGED downSock
     ELSE /\ Return(c)
          /\ UNCHANGED upSock
  /\ UNCHANGED <<callVars, sessionVars, ectx, ln, enginePc, eret>>

\* MakeSecretConnection(upstreamConn) (lines 102-106).
HandshakeUpstream(c, ok) ==
  /\ handler[c] = "handshakeUpstream"
  /\ IF ok THEN /\ handler' = [handler EXCEPT ![c] = "startDownstream"]
                /\ UNCHANGED <<downSock, upSock>>
     ELSE /\ upSock' = [upSock EXCEPT ![c] = "closed"]
          /\ Return(c)
  /\ UNCHANGED <<callVars, sessionVars, ectx, ln, enginePc, eret>>

\* newSession and, in sess.run(), s.downstream.Start() (session.go:70-73).
SessionStartDownstream(c, ok) ==
  /\ handler[c] = "startDownstream"
  /\ IF ok THEN /\ handler' = [handler EXCEPT ![c] = "startUpstream"]
                /\ UNCHANGED downSock
     ELSE Return(c)
  /\ UNCHANGED <<callVars, sessionVars, ectx, ln, enginePc, eret, upSock>>

\* s.upstream.Start(), and s.downstream.Stop() when it fails
\* (session.go:74-78).
SessionStartUpstream(c, ok) ==
  /\ handler[c] = "startUpstream"
  /\ IF ok THEN /\ handler' = [handler EXCEPT ![c] = "session"]
                /\ UNCHANGED downSock
     ELSE Return(c)
  /\ UNCHANGED <<callVars, sessionVars, ectx, ln, enginePc, eret, upSock>>

\* sess.run() returns: the session context is done, the deferred FlushStops
\* close both connections.
SessionReturns(c) ==
  /\ handler[c] = "session"
  /\ upSock' = [upSock EXCEPT ![c] = "closed"]
  /\ Return(c)
  /\ UNCHANGED <<callVars, sessionVars, ectx, ln, enginePc, eret>>

\* The session of c ends because the context given to Run is cancelled.
SessionCancelled(c) ==
  /\ ectx = "cancelled"
  /\ SessionReturns(c)

\* The session of c ends because one of its connections reports an error.
SessionFails(c) ==
  /\ ectx = "live"
  /\ SessionReturns(c)

\* wg.Wait() in the deferred function returns and Run with it.
WaitDone ==
  /\ enginePc = "wait"
  /\ \A c \in Conns : handler[c] \in {"none", "done"}
  /\ enginePc' = "returned"
  /\ UNCHANGED <<callVars, sessionVars, ectx, ln, eret, handler, downSock, upSock>>

\* The steps the engine takes on its own, without a peer doing anything.
EngineStep ==
  \/ CloseListener
  \/ AcceptClosed
  \/ \E c \in Conns, ok \in BOOLEAN : DialUpstream(c, ok)
  \/ \E c \in Conns, ok \in BOOLEAN : SessionStartDownstream(c, ok)
  \/ \E c \in Conns, ok \in BOOLEAN : SessionStartUpstream(c, ok)
  \/ \E c \in Conns : SessionCancelled(c)
  \/ WaitDone

\* The steps that need a peer or the caller of Run.
PeerStep ==
  \/ EngineCancel
  \/ \E c \in Conns : Accept(c)
  \/ \E temporary \in BOOLEAN : AcceptError(temporary)
  \/ \E c \in Conns, ok \in BOOLEAN : HandshakeDownstream(c, ok)
  \/ \E c \in Conns, ok \in BOOLEAN : HandshakeUpstream(c, ok)
  \/ \E c \in Conns : SessionFails(c)

NextEngine == EngineStep \/ PeerStep

SpecEngine == InitEngine /\ [][NextEngine]_vars

(***************************************************************************)
(* Properties of the session.                                              *)
(***************************************************************************)

\* The configured Direction includes the frames arriving on connection d.
Selected(d) ==
  \/ cfg.Direction = DirectionBoth
  \/ cfg.Direction = DirectionUpstream /\ d = directionUpstream
  \/ cfg.Direction = DirectionDownstream /\ d = directionDownstream

\* One of the consensus channels 0x20-0x23.
ConsensusCh(ch) == ch \in 32..35

\* The frame decodes to a Proposal or a Vote.
ProposalOrVote(f) == f.payload.kind \in {"proposal", "vote"}

\* The frame arrives on d in a selected direction on a consensus channel,
\* decodes to a Proposal or Vote and its canonical form matches the Trigger.
IsTriggered(d, f) ==
  /\ Selected(d)
  /\ ConsensusCh(f.ch)
  /\ ProposalOrVote(f)
  /\ BeforeHooks(cfg, f.payload).outcome = "triggered"

\* The Send calls made for the i-th frame that arrived on d, in order.
SendsOf(d, i) == SelectSeq(out[Opposite(d)], LAMBDA e : e.src = i)

\* Every Send made for the i-th frame of d met a running connection.
AllLive(d, i) == \A k \in 1..Len(SendsOf(d, i)) : SendsOf(d, i)[k].live

\* The handler of d has returned from the i-th frame that arrived on d.
Handled(d, i) == i \in 1..Len(recvd[d]) /\ (i = Len(recvd[d]) => pc[d] = "idle")

\* A frame arrives on d in this step; NewFrame(d) is that frame.
Arrives(d) == Len(recvd'[d]) = Len(recvd[d]) + 1
NewFrame(d) == recvd'[d][Len(recvd'[d])]

\* This step adds to the Send calls on the opposite side of d exactly one:
\* the payload of f, unchanged, on the channel of f.
ForwardsRawOnce(d, f) ==
  /\ Len(out'[Opposite(d)]) = Len(out[Opposite(d)]) + 1
  /\ SubSeq(out'[Opposite(d)], 1, Len(out[Opposite(d)])) = out[Opposite(d)]
  /\ out'[Opposite(d)][Len(out'[Opposite(d)])].ch = f.ch
  /\ out'[Opposite(d)][Len(out'[Opposite(d)])].payload = f.payload
  /\ out'[d] = out[d]

\* C1: with Hooks.Drop set, a triggered frame (selected direction, consensus
\* channel, Proposal or Vote, Trigger matches) causes no Send at all on the
\* opposite side, each such frame the handler is done with has added exactly
\* one to the dropped counter, and the mutated and duplicated counters stay
\* as they were.
C1_DropSendsNothing ==
  cfg.Hooks.Drop =>
    /\ \A d \in Dirs : \A i \in 1..Len(recvd[d]) :
         IsTriggered(d, recvd[d][i]) => SendsOf(d, i) = <<>>
    /\ metrics.dropped =
         Cardinality({x \in Dirs \X (1..MaxFrames + 1) :
                        /\ Handled(x[1], x[2])
                        /\ IsTriggered(x[1], recvd[x[1]][x[2]])})
    /\ metrics.mutated = 0
    /\ metrics.duplicated = 0

\* Two triggered frames were dropped, each after its delay, and nothing was
\* sent to either side.
C1_Witness ==
  /\ cfg.Hooks.Drop
  /\ cfg.Hooks.Delay > 0
  /\ metrics.dropped = 2
  /\ \A d \in Dirs : out[d] = <<>> /\ pc[d] = "idle"

\* C3: a frame whose channel is not a consensus channel, or that arrives in
\* a direction the configured Direction does not include, is sent to the
\* opposite side in the step it arrives: one Send, the same bytes, the same
\* channel; no counter changes, the handler does not sleep or go on to the
\* mutator, and the frame is never sent again.
C3_Bypass ==
  [][\A d \in Dirs :
       /\ (Arrives(d) /\ (~ConsensusCh(NewFrame(d).ch) \/ ~Selected(d))) =>
            /\ ForwardsRawOnce(d, NewFrame(d))
            /\ metrics' = metrics
            /\ pc'[d] = "idle"
       /\ \A i \in 1..Len(recvd[d]) :
            (~ConsensusCh(recvd[d][i].ch) \/ ~Selected(d)) => Len(SendsOf(d, i)) = 1
    ]_vars

\* A Prevote on the mempool channel in a selected direction and a Prevote on
\* the vote channel in a direction not selected were both passed on, with a
\* drop hook configured.
C3_Witness ==
  /\ cfg.Direction = DirectionUpstream
  /\ cfg.Hooks.Drop
  /\ recvd[directionUpstream] = <<Frame(mempoolChannelID, PrevoteA)>>
  /\ recvd[directionDownstream] = <<Frame(voteChannelID, PrevoteA)>>
  /\ Len(out[directionDownstream]) = 1
  /\ Len(out[directionUpstream]) = 1
  /\ metrics = NewMetrics

\* The conjunction of the configured predicates of the Trigger.
ConfiguredPredicatesHold(t, c) ==
  /\ t.Height = NilInt \/ c.Height = t.Height
  /\ t.Round = NilInt \/ c.Round = t.Round
  /\ t.Step = <<>> \/ c.Type = t.Step

\* The canonical form of a Proposal or Vote frame.
CanonicalOfFrame(f) == canonicalFromConsensus(f.payload).canonical

\* C4: Trigger.Matches is true iff every configured predicate (height,
\* round, step) holds of the canonical message, so the empty Trigger matches
\* every message; a consensus frame in a selected direction whose canonical
\* form does not match is sent raw once in the step it arrives, with no
\* counter changed and no hook applied, and one that matches goes on to the
\* hooks.
C4_TriggerConjunction ==
  [][\A d \in Dirs :
       (Arrives(d) /\ Selected(d) /\ ConsensusCh(NewFrame(d).ch)
          /\ ProposalOrVote(NewFrame(d))) =>
         /\ TriggerMatches(cfg.Trigger, CanonicalOfFrame(NewFrame(d)))
              <=> ConfiguredPredicatesHold(cfg.Trigger, CanonicalOfFrame(NewFrame(d)))
         /\ TriggerMatches(Trigger(NilInt, NilInt, <<>>), CanonicalOfFrame(NewFrame(d)))
         /\ ~ConfiguredPredicatesHold(cfg.Trigger, CanonicalOfFrame(NewFrame(d))) =>
              /\ ForwardsRawOnce(d, NewFrame(d))
              /\ metrics' = metrics
              /\ pc'[d] = "idle"
         /\ (ConfiguredPredicatesHold(cfg.Trigger, CanonicalOfFrame(NewFrame(d)))
               /\ cfg.Hooks.Delay > 0) =>
              /\ pc'[d] = "sleep"
              /\ metrics'.delayed = metrics.delayed + 1
    ]_vars

\* A Proposal at height 7 met the trigger "height 5, round 1" and was passed
\* on unchanged although delay and drop hooks are configured.
C4_Witness ==
  /\ cfg.Trigger = Trigger(Big(5), Big(1), <<>>)
  /\ cfg.Direction = DirectionBoth
  /\ cfg.Hooks.Delay > 0
  /\ cfg.Hooks.Drop
  /\ recvd[directionUpstream] = <<Frame(dataChannelID, ProposalE)>>
  /\ Len(out[directionDownstream]) = 1
  /\ out[directionDownstream][1].payload = ProposalE
  /\ metrics = NewMetrics

\* The payload cannot be decoded, decodes to something other than a Proposal
\* or Vote, or fails the conversion to the canonical form.
Undecodable(f) == f.payload.kind \in {"garbage", "other", "emptyvote", "emptyproposal"}

\* C5: a consensus frame in a selected direction that cannot be decoded, is
\* neither Proposal nor Vote, or fails conversion is sent to the opposite
\* side in the step it arrives: one Send, the same bytes, the same channel;
\* no counter changes, no hook runs, the session context, the latched error
\* and the connections stay as they are, and the frame is never sent again.
C5_UndecodableForwardedRaw ==
  [][\A d \in Dirs :
       /\ (Arrives(d) /\ Selected(d) /\ ConsensusCh(NewFrame(d).ch)
             /\ Undecodable(NewFrame(d))) =>
            /\ ForwardsRawOnce(d, NewFrame(d))
            /\ metrics' = metrics
            /\ pc'[d] = "idle"
            /\ ctx' = ctx
            /\ err' = err
            /\ running' = running
       /\ \A i \in 1..Len(recvd[d]) :
            (Selected(d) /\ ConsensusCh(recvd[d][i].ch) /\ Undecodable(recvd[d][i]))
              => Len(SendsOf(d, i)) = 1
    ]_vars

\* An undecodable payload and a consensus message that is neither Proposal
\* nor Vote went through a live session with delay and drop hooks configured.
C5_Witness ==
  /\ cfg.Hooks.Drop
  /\ cfg.Hooks.Delay > 0
  /\ ctx = "live"
  /\ recvd[directionUpstream] = <<Frame(voteChannelID, Garbage)>>
  /\ recvd[directionDownstream] = <<Frame(stateChannelID, OtherMsg)>>
  /\ Len(out[directionDownstream]) = 1
  /\ out[directionDownstream][1].payload = Garbage
  /\ out[directionDownstream][1].live
  /\ Len(out[directionUpstream]) = 1
  /\ metrics = NewMetrics

\* The mutator fails on the canonical form c, or one of its outputs does not
\* re-encode.
MutationFails(c) ==
  \/ applyByzantineAction(cfg, c).err
  \/ \E k \in 1..Len(applyByzantineAction(cfg, c).raws) :
       \A now \in Clock : rawToConsensusMessage(applyByzantineAction(cfg, c).raws[k], now).err

\* C6: when the mutator fails for a triggered frame, or one of its outputs
\* fails to re-encode, the (running) opposite side gets the original bytes
\* once and no mutated output of that frame.
C6_FailureForwardsOnlyOriginal ==
  \A d \in Dirs : \A i \in 1..Len(recvd[d]) :
    (/\ Handled(d, i)
     /\ AllLive(d, i)
     /\ ~cfg.Hooks.Drop
     /\ IsTriggered(d, recvd[d][i])
     /\ MutationFails(CanonicalOfFrame(recvd[d][i]))) =>
      /\ Len(SendsOf(d, i)) = 1
      /\ SendsOf(d, i)[1].kind = "raw"
      /\ SendsOf(d, i)[1].payload = recvd[d][i].payload
      /\ SendsOf(d, i)[1].ch = recvd[d][i].ch

\* The frame is a Prevote.
IsPrevote(f) == f.payload.kind = "vote" /\ f.payload.vtype = PrevoteType

\* The block hash the override AlternateBlockHash puts on the wire.
OverrideHash == hexDecodeOrCopy(cfg.Options.AlternateBlockHash)

\* C2: with action double_vote, no drop hook (and no duplicate hook, and an
\* override, if given, other than the vote's own hash), a triggered Prevote
\* the handler is done with has caused exactly two Sends to the (running)
\* opposite side, both votes on the channel of the frame; their block hashes
\* differ, one is the original hash, and the other is the override when one
\* is given.
C2_DoubleVoteTwoHashes ==
  \A d \in Dirs : \A i \in 1..Len(recvd[d]) :
    (/\ Handled(d, i)
     /\ AllLive(d, i)
     /\ cfg.Action = ByzantineActionDoubleVote
     /\ ~cfg.Hooks.Drop
     /\ ~cfg.Hooks.Duplicate
     /\ IsTriggered(d, recvd[d][i])
     /\ IsPrevote(recvd[d][i])
     /\ (cfg.Options.AlternateBlockHash = <<>> \/ OverrideHash # recvd[d][i].payload.hash)) =>
      /\ Len(SendsOf(d, i)) = 2
      /\ \A k \in 1..2 : /\ SendsOf(d, i)[k].ch = recvd[d][i].ch
                         /\ SendsOf(d, i)[k].payload.kind = "vote"
      /\ SendsOf(d, i)[1].payload.hash # SendsOf(d, i)[2].payload.hash
      /\ \E k \in 1..2 :
           /\ SendsOf(d, i)[k].payload.hash = recvd[d][i].payload.hash
           /\ cfg.Options.AlternateBlockHash # <<>> =>
                SendsOf(d, i)[3 - k].payload.hash = OverrideHash

\* The number of mutator outputs of the frame the handler of d is on.
OutputsOfCurrent(d) == Len(applyByzantineAction(cfg, cur[d].canonical).raws)

\* The Sends of the given kinds made for the frame the handler of d is on.
SendsOfCurrent(d, kinds) ==
  Len(SelectSeq(out[Opposite(d)], LAMBDA e : e.src = Len(recvd[d]) /\ e.kind \in kinds))

\* C7: when the handler finishes a triggered, non-dropped frame whose k
\* mutator outputs were all sent, the mutated counter grows by the number of
\* Sends made for the frame and the duplicated counter by the number of
\* duplicate Sends: k and 0 without the duplicate hook, 2k and k with it.
C7_CountersMatchSends ==
  [][\A d \in Dirs :
       (pc[d] = "count" /\ pc'[d] = "idle") =>
         /\ metrics'.mutated = metrics.mutated + SendsOfCurrent(d, {"out", "dup"})
         /\ metrics'.duplicated = metrics.duplicated + SendsOfCurrent(d, {"dup"})
         /\ SendsOfCurrent(d, {"raw"}) = 0
         /\ SendsOfCurrent(d, {"out", "dup"}) =
              IF cfg.Hooks.Duplicate THEN 2 * OutputsOfCurrent(d) ELSE OutputsOfCurrent(d)
         /\ SendsOfCurrent(d, {"dup"}) =
              IF cfg.Hooks.Duplicate THEN OutputsOfCurrent(d) ELSE 0
         /\ metrics'.dropped = metrics.dropped
         /\ metrics'.delayed = metrics.delayed
    ]_vars

\* A double vote with the duplicate hook was counted: four Sends, two of
\* them duplicates.
C7_Witness ==
  /\ cfg.Action = ByzantineActionDoubleVote
  /\ cfg.Hooks.Duplicate
  /\ metrics.mutated = 4
  /\ metrics.duplicated = 2
  /\ \E d \in Dirs : Len(recvd[d]) = 1 /\ pc[d] = "idle" /\ Len(out[Opposite(d)]) = 4

\* The payloads the raw messages raws re-encode to, in order.
Reencoded(raws) ==
  [k \in 1..Len(raws) |-> rawToConsensusMessage(raws[k], CHOOSE now \in Clock : TRUE).msg]

\* The payloads the outputs of the i-th frame of d re-encode to, in mutator
\* output order.
ExpectedPayloads(d, i) ==
  Reencoded(applyByzantineAction(cfg, CanonicalOfFrame(recvd[d][i])).raws)

\* The payloads of the Sends in log.
Payloads(log) == [k \in 1..Len(log) |-> log[k].payload]

\* The payloads of the first Sends (not the duplicates) made for frame i.
SentPayloads(d, i) ==
  Payloads(SelectSeq(out[Opposite(d)], LAMBDA e : e.src = i /\ e.kind = "out"))

\* sent is a prefix of expected.
IsPrefix(sent, expected) ==
  /\ Len(sent) <= Len(expected)
  /\ \A k \in 1..Len(sent) : sent[k] = expected[k]

\* The Sends of log are in the arrival order of their frames on every
\* channel, and duplicates directly follow what they repeat.
Ordered(log, duplicate) ==
  /\ \A i, j \in 1..Len(log) :
       (i < j /\ log[i].ch = log[j].ch) => log[i].src <= log[j].src
  /\ \A k \in 1..Len(log) :
       /\ log[k].kind = "dup" =>
            /\ k > 1
            /\ log[k - 1].kind = "out"
            /\ log[k - 1].payload = log[k].payload
            /\ log[k - 1].ch = log[k].ch
            /\ log[k - 1].src = log[k].src
       /\ (log[k].kind = "out" /\ duplicate) =>
            /\ k < Len(log)
            /\ log[k + 1].kind = "dup"

\* C8: on every connection the Sends of one channel appear in the arrival
\* order of the frames they were made for, so the outputs of one frame are
\* contiguous in their stream; the outputs of a frame appear in mutator
\* output order; every duplicate directly follows the Send it repeats and,
\* under the duplicate hook, every output is directly followed by its
\* duplicate.  Delay hooks and both directions are part of the runs.
C8_StreamOrder ==
  \A d \in Dirs :
    /\ Ordered(out[Opposite(d)], cfg.Hooks.Duplicate)
    /\ \A i \in 1..Len(recvd[d]) :
         (\E k \in 1..Len(out[Opposite(d)]) :
            out[Opposite(d)][k].src = i /\ out[Opposite(d)][k].kind = "out")
           => IsPrefix(SentPayloads(d, i), ExpectedPayloads(d, i))

\* Two delayed double votes with duplicates, one in each direction, were
\* sent while the other direction was at work: four Sends on each side.
C8_Witness ==
  /\ cfg.Hooks.Delay > 0
  /\ cfg.Hooks.Duplicate
  /\ cfg.Action = ByzantineActionDoubleVote
  /\ \A d \in Dirs : Len(recvd[d]) = 1 /\ Len(out[d]) = 4


\* The result run() owes the caller in the current state.
OwedResult == IF err # NoErr THEN err ELSE CtxCanceled

\* C9: of the errors the two connections report, the first is latched and
\* cancels the session context, every later one leaves the latch as it is;
\* run() passes <-s.ctx.Done() only when the context is done, both
\* connections are stopped when it has returned, and it returns the latched
\* error if one was recorded, else the context's cancellation error.
C9_LatchAndReturn ==
  [][/\ (err # NoErr => err' = err)
     /\ (err = NoErr /\ err' # NoErr => ctx' # "live")
     /\ (runPc = "wait" /\ runPc' # "wait" => ctx # "live")
     /\ (runPc' = "returned" => running' = {})
     /\ (runPc # "returned" /\ runPc' = "returned" => ret' = OwedResult')]_vars

\* A Send that a running connection accepts is made for direction d.
LiveSend(d) == Live(d) /\ out'[Opposite(d)] # out[Opposite(d)]

\* C10: once the session context is cancelled, a frame that waits in the
\* Hooks.Delay sleep is not forwarded when the sleep ends, and a frame that
\* arrives is not sent to the opposite side.
C10_CancelStopsForwarding ==
  [][ctx # "live" =>
       \A d \in Dirs : (pc[d] = "sleep" \/ Arrives(d)) => ~LiveSend(d)]_vars


\* Direction d makes a Send on a connection that is stopped or whose queue
\* is full.
SendOnBlocked(d) ==
  /\ Opposite(d) \in full \/ Opposite(d) \notin running
  /\ out'[Opposite(d)] # out[Opposite(d)]

\* The Sends the step adds to the log of the target of direction d.
AddedSends(d) ==
  SubSeq(out'[Opposite(d)], Len(out[Opposite(d)]) + 1, Len(out'[Opposite(d)]))

\* C11: a Send on a full (or stopped) connection returns false, and the
\* session then leaves run() and both connections as they are and its
\* handler goes on: it is back at waiting for the next frame or at the next
\* step of the frame it handles, and the other direction is not held up.
\* While no connection reports an error and the parent does not cancel, no
\* error is ever latched and the session context is never cancelled.
C11_FullQueueOnlyWarns ==
  [][/\ err' = NoErr /\ ctx' = "live"
     /\ \A d \in Dirs : SendOnBlocked(d) =>
          /\ \A k \in 1..Len(AddedSends(d)) : ~AddedSends(d)[k].live
          /\ running' = running /\ runPc' = runPc /\ ret' = ret
          /\ pc'[d] \in {"idle", "send", "count"}
          /\ pc'[Opposite(d)] = pc[Opposite(d)]]_vars

\* A frame from upstream met a full downstream queue, and the next frame
\* from upstream was handled and sent.
C11_Witness ==
  /\ ctx = "live" /\ err = NoErr /\ runPc = "wait"
  /\ Len(recvd[directionUpstream]) = 2 /\ pc[directionUpstream] = "idle"
  /\ Len(SendsOf(directionUpstream, 1)) > 0
  /\ ~SendsOf(directionUpstream, 1)[1].live
  /\ Len(SendsOf(directionUpstream, 2)) > 0
  /\ AllLive(directionUpstream, 2)


\* Every handler the engine spawned has finished.
HandlersDone == \A c \in Conns : handler[c] \in {"none", "done"}

\* C12: once the context given to Run is cancelled, Run comes to return
\* whatever its handlers wait for: it has returned or the engine can take a
\* step of its own.  Run returns the context's error unless a fatal accept
\* error ended the loop, the listener is closed and every handler has
\* finished when it returns, and Run leaves the accept loop for no other
\* reason than cancellation or a non-temporary accept error.
C12_RunReturnsAfterCancel ==
  /\ ectx = "cancelled" => enginePc = "returned" \/ ENABLED EngineStep
  /\ enginePc = "returned" => ln = "closed" /\ HandlersDone
  /\ enginePc # "accept" => eret \in {CtxCanceled, AcceptErr}
  /\ eret = CtxCanceled => ectx = "cancelled"


\* C13: when the handler of an accepted connection has returned, its
\* downstream socket is closed and its upstream socket, if one was opened,
\* is closed; and whatever handlers and sessions fail, Run stays in its
\* accept loop while its context is live and no accept error is fatal.
C13_SocketsClosedOnReturn ==
  /\ \A c \in Conns : handler[c] = "done" =>
       downSock[c] = "closed" /\ upSock[c] \in {"none", "closed"}
  /\ ectx = "live" /\ eret # AcceptErr => enginePc = "accept"

(***************************************************************************)
(* The mutator on objects in memory: *CanonicalMessage, *big.Int, slices   *)
(* and maps are addresses into a memory, so that sharing and writes in     *)
(* place are visible.                                                      *)
(***************************************************************************)

\* A nil pointer, nil slice or nil map.
Nil == 0

\* The memory: the messages, the big.Int values, the backing arrays of the
\* slices and the maps allocated so far, each addressed by its index.
Memory(msgs, ints, slices, maps) ==
  [msgs |-> msgs, ints |-> ints, slices |-> slices, maps |-> maps]

\* abstraction.CanonicalMessage with its pointer, slice and map fields.
CanonicalAt(chain, type, height, round, view, ts, hash, prev, proposer, validator, sig, seals, changes, extensions, payload) ==
  [ChainID |-> chain, Type |-> type, Height |-> height, Round |-> round, View |-> view,
   Timestamp |-> ts, BlockHash |-> hash, PrevHash |-> prev, Proposer |-> proposer,
   Validator |-> validator, Signature |-> sig, CommitSeals |-> seals,
   ViewChanges |-> changes, Extensions |-> extensions, RawPayload |-> payload]

\* new(big.Int).Set(v), big.NewInt(v): the new value gets the next address.
NewInt(M, v) == [M EXCEPT !.ints = Append(@, v)]

\* cloned.<field> = new(big.Int).Set(msg.<field>) when the field is not nil;
\* s is the memory and the struct under construction.
CopyInt(s, field) ==
  IF s.obj[field] = Nil THEN s
  ELSE [mem |-> NewInt(s.mem, s.mem.ints[s.obj[field]]),
        obj |-> [s.obj EXCEPT ![field] = Len(s.mem.ints) + 1]]

\* cloned.<field> = append([]T(nil), msg.<field>...) when the field is not
\* nil: an empty slice comes out nil.
CopySlice(s, field) ==
  IF s.obj[field] = Nil THEN s
  ELSE IF s.mem.slices[s.obj[field]] = <<>>
    THEN [mem |-> s.mem, obj |-> [s.obj EXCEPT ![field] = Nil]]
  ELSE [mem |-> [s.mem EXCEPT !.slices = Append(@, s.mem.slices[s.obj[field]])],
        obj |-> [s.obj EXCEPT ![field] = Len(s.mem.slices) + 1]]

\* The entry vc with its View and Height copied when not nil; n is the
\* number of big.Int values allocated before.
CopyEntry(vc, n) ==
  [vc EXCEPT !.View = IF @ = Nil THEN Nil ELSE n + 1,
             !.Height = IF @ = Nil THEN Nil
                        ELSE IF vc.View = Nil THEN n + 1 ELSE n + 2]

\* The big.Int values CopyEntry allocates for vc.
EntryInts(ints, vc) ==
  (IF vc.View = Nil THEN <<>> ELSE <<ints[vc.View]>>)
    \o (IF vc.Height = Nil THEN <<>> ELSE <<ints[vc.Height]>>)

\* The loop over msg.ViewChanges: the copies made so far and the memory.
RECURSIVE CopyEntries(_, _, _)
CopyEntries(mem, entries, done) ==
  IF entries = <<>> THEN [mem |-> mem, entries |-> done]
  ELSE CopyEntries([mem EXCEPT !.ints = @ \o EntryInts(mem.ints, Head(entries))],
                   Tail(entries),
                   Append(done, CopyEntry(Head(entries), Len(mem.ints))))

\* cloned.ViewChanges = make(...) filled by the loop.
StoreEntries(s, copied) ==
  [mem |-> [copied.mem EXCEPT !.slices = Append(@, copied.entries)],
   obj |-> [s.obj EXCEPT !.ViewChanges = Len(copied.mem.slices) + 1]]

CopyViewChanges(s) ==
  IF s.obj.ViewChanges = Nil THEN s
  ELSE StoreEntries(s, CopyEntries(s.mem, s.mem.slices[s.obj.ViewChanges], <<>>))

\* cloned.Extensions = a new map with the same keys and values.
CopyMap(s) ==
  IF s.obj.Extensions = Nil THEN s
  ELSE [mem |-> [s.mem EXCEPT !.maps = Append(@, s.mem.maps[s.obj.Extensions])],
        obj |-> [s.obj EXCEPT !.Extensions = Len(s.mem.maps) + 1]]

\* return &cloned
Store(s) ==
  [mem |-> [s.mem EXCEPT !.msgs = Append(@, s.obj)], ptr |-> Len(s.mem.msgs) + 1]

\* The clone is the input itself.
cloneNothingAt(M, p) == [mem |-> M, ptr |-> p]

\* cloneCanonicalMessage(msg) for the message at address p.
cloneCanonicalMessageAt(M, p) ==
  IF p = Nil THEN [mem |-> M, ptr |-> Nil]
  ELSE Store(CopySlice(CopyMap(CopyViewChanges(CopySlice(
         CopyInt(CopyInt(CopyInt([mem |-> M, obj |-> M.msgs[p]],
                                 "Height"), "Round"), "View"),
         "CommitSeals"))), "RawPayload"))

\* target.<field> = v for the message at address q.
SetField(M, q, field, v) == [M EXCEPT !.msgs[q][field] = v]

\* target.<field> = shiftBigInt(target.<field>, offset)
shiftBigIntAt(M, q, field, offset) ==
  IF offset = 0 THEN
    IF M.msgs[q][field] = Nil THEN M
    ELSE SetField(NewInt(M, M.ints[M.msgs[q][field]]), q, field, Len(M.ints) + 1)
  ELSE IF M.msgs[q][field] = Nil
    THEN SetField(NewInt(M, BigAdd(Big(0), offset)), q, field, Len(M.ints) + 1)
  ELSE SetField(NewInt(M, BigAdd(M.ints[M.msgs[q][field]], offset)), q, field,
                Len(M.ints) + 1)

ShiftHeightAt(M, q, opts) ==
  IF opts.HeightOffset # 0 THEN shiftBigIntAt(M, q, "Height", opts.HeightOffset) ELSE M

ShiftRoundAt(M, q, opts) ==
  IF opts.RoundOffset # 0 THEN shiftBigIntAt(M, q, "Round", opts.RoundOffset) ELSE M

ShiftTimestampAt(M, q, opts) ==
  IF opts.TimestampShift # 0
    THEN SetField(M, q, "Timestamp", M.msgs[q].Timestamp + opts.TimestampShift)
    ELSE M

\* No common mutation at all.
applyNoCommonMutations(M, q, opts) == M

applyCommonMutationsAt(M, q, opts) ==
  ShiftTimestampAt(ShiftRoundAt(ShiftHeightAt(M, q, opts), q, opts), q, opts)

ensureTimestampProgressAt(M, q, original) ==
  IF original = ZeroTime THEN M
  ELSE IF M.msgs[q].Timestamp = original
    THEN SetField(M, q, "Timestamp", M.msgs[q].Timestamp + 1)
    ELSE M

\* applyCommonMutations(mutated, opts); ensureTimestampProgress(mutated, msg.Timestamp)
FinishAt(M, p, q, opts) ==
  ensureTimestampProgressAt(applyCommonMutationsAt(M, q, opts), q,
                            applyCommonMutationsAt(M, q, opts).msgs[p].Timestamp)

\* What the mutator returns and the memory it leaves.
MutErrAt(M) == [err |-> TRUE, out |-> <<>>, mem |-> M]
MutOkAt(M, outs) == [err |-> FALSE, out |-> outs, mem |-> M]

WithAlternateHashAt(M, p, q, opts) ==
  SetField(M, q, "BlockHash",
           chooseAlternateHash(M.msgs[p].BlockHash, opts.AlternateBlockHash))

WithAlternateSignatureAt(M, q, opts) ==
  IF opts.AlternateSignature # <<>>
    THEN SetField(M, q, "Signature", opts.AlternateSignature)
    ELSE M

WithAlternatePrevHashAt(M, p, q, opts) ==
  IF opts.AlternatePrevHash # <<>>
    THEN SetField(M, q, "PrevHash", opts.AlternatePrevHash)
    ELSE IF M.msgs[q].PrevHash = M.msgs[p].PrevHash
      THEN SetField(M, q, "PrevHash", chooseAlternateHash(M.msgs[p].PrevHash, <<>>))
      ELSE M

\* applyDoubleVoteMutation after original (at o.ptr) and mutated (at m.ptr)
\* were cloned.
DoubleVoteAt(p, o, m, opts) ==
  MutOkAt(FinishAt(WithAlternateSignatureAt(
                     WithAlternateHashAt(m.mem, p, m.ptr, opts), m.ptr, opts),
                   p, m.ptr, opts),
          <<o.ptr, m.ptr>>)

\* The second clone, made in the memory the first one left.
SecondCloneVote(M, p, o, opts) ==
  DoubleVoteAt(p, o, cloneCanonicalMessageAt(o.mem, p), opts)

applyDoubleVoteMutationAt(M, p, opts) ==
  IF ~IsVoteType(M.msgs[p].Type) THEN MutErrAt(M)
  ELSE SecondCloneVote(M, p, cloneCanonicalMessageAt(M, p), opts)

DoubleProposalAt(p, o, m, opts) ==
  MutOkAt(FinishAt(WithAlternateSignatureAt(
                     WithAlternatePrevHashAt(
                       WithAlternateHashAt(m.mem, p, m.ptr, opts), p, m.ptr, opts),
                     m.ptr, opts),
                   p, m.ptr, opts),
          <<o.ptr, m.ptr>>)

SecondCloneProposal(M, p, o, opts) ==
  DoubleProposalAt(p, o, cloneCanonicalMessageAt(o.mem, p), opts)

applyDoubleProposalMutationAt(M, p, opts) ==
  IF M.msgs[p].Type # MsgTypeProposal THEN MutErrAt(M)
  ELSE SecondCloneProposal(M, p, cloneCanonicalMessageAt(M, p), opts)

\* One output: the clone m with field set to v when field is given, then
\* the common mutations.
SingleAt(p, m, field, v, opts) ==
  MutOkAt(FinishAt(IF field = "" THEN m.mem ELSE SetField(m.mem, m.ptr, field, v),
                   p, m.ptr, opts),
          <<m.ptr>>)

\* mutated is cloned before the switch on the type; an error leaves the
\* clone in memory.
AlterValidatorAt(M, p, m, opts) ==
  IF IsVoteType(M.msgs[p].Type) THEN SingleAt(p, m, "Validator", opts.AlternateValidator, opts)
  ELSE IF M.msgs[p].Type = MsgTypeProposal
    THEN SingleAt(p, m, "Proposer", opts.AlternateValidator, opts)
  ELSE MutErrAt(m.mem)

applyAlterValidatorMutationAt(M, p, opts) ==
  IF opts.AlternateValidator = <<>> THEN MutErrAt(M)
  ELSE AlterValidatorAt(M, p, cloneCanonicalMessageAt(M, p), opts)

applyDropSignatureMutationAt(M, p, opts) ==
  SingleAt(p, cloneCanonicalMessageAt(M, p), "Signature", <<>>, opts)

\* The skew without the check of the shift.
applyTimestampSkewUnchecked(M, p, opts) ==
  SingleAt(p, cloneCanonicalMessageAt(M, p), "", <<>>, opts)

applyTimestampSkewMutationAt(M, p, opts) ==
  IF opts.TimestampShift = 0 THEN MutErrAt(M)
  ELSE SingleAt(p, cloneCanonicalMessageAt(M, p), "", <<>>, opts)

\* return []*CanonicalMessage{cloneCanonicalMessage(msg)}, nil
NoneAt(m) == MutOkAt(m.mem, <<m.ptr>>)

\* ApplyByzantineCanonical(msg, action, opts) for the message at address p.
ApplyByzantineCanonicalAt(M, p, action, opts) ==
  IF p = Nil THEN MutErrAt(M)
  ELSE IF action = ByzantineActionNone THEN NoneAt(cloneCanonicalMessageAt(M, p))
  ELSE IF action = ByzantineActionDoubleVote THEN applyDoubleVoteMutationAt(M, p, opts)
  ELSE IF action = ByzantineActionDoubleProposal THEN applyDoubleProposalMutationAt(M, p, opts)
  ELSE IF action = ByzantineActionAlterValidator THEN applyAlterValidatorMutationAt(M, p, opts)
  ELSE IF action = ByzantineActionDropSignature THEN applyDropSignatureMutationAt(M, p, opts)
  ELSE IF action = ByzantineActionTimestampSkew THEN applyTimestampSkewMutationAt(M, p, opts)
  ELSE MutErrAt(M)

(***************************************************************************)
(* The mappers in the source tree: CometBFTMapper as src/unnamed/part_005  *)
(* has it (CometBFTConsensusMessage with message_type and vote_type as     *)
(* strings), KaiaMapper and BesuMapper.                                    *)
(***************************************************************************)

MsgTypePrepare    == <<"p","r","e","p","a","r","e">>
MsgTypeCommit     == <<"c","o","m","m","i","t">>
MsgTypeViewChange == <<"v","i","e","w","_","c","h","a","n","g","e">>

\* The message type names of the chains.
NativeBlockPart    == <<"B","l","o","c","k","P","a","r","t">>
NativeNewRoundStep == <<"N","e","w","R","o","u","n","d","S","t","e","p">>
NativeNewValidBlock == <<"N","e","w","V","a","l","i","d","B","l","o","c","k">>
NativeHasVote       == <<"H","a","s","V","o","t","e">>
NativeVoteSetMaj23  == <<"V","o","t","e","S","e","t","M","a","j","2","3">>
NativeVoteSetBits   == <<"V","o","t","e","S","e","t","B","i","t","s">>
NativeProposalPOL   == <<"P","r","o","p","o","s","a","l","P","O","L">>
NativeInternal ==
  {NativeNewRoundStep, NativeNewValidBlock, NativeHasVote, NativeVoteSetMaj23,
   NativeVoteSetBits, NativeProposalPOL}
KaiaPreprepare  == <<"P","r","e","p","r","e","p","a","r","e">>
KaiaPrepare     == <<"P","r","e","p","a","r","e">>
KaiaRoundChange == <<"R","o","u","n","d","C","h","a","n","g","e">>
BesuProposal    == <<"P","R","O","P","O","S","A","L">>
BesuPrepare     == <<"P","R","E","P","A","R","E">>
BesuCommit      == <<"C","O","M","M","I","T">>
BesuViewChange  == <<"V","I","E","W","_","C","H","A","N","G","E">>
BesuNewView     == <<"N","E","W","_","V","I","E","W">>

\* The result of a mapper call: the Code of the error ("" for nil) and the
\* message.
MapperErr(code) == [err |-> code, msg |-> <<>>]
MapperOk(msg) == [err |-> "", msg |-> msg]

\* abstraction.CanonicalMessage with its extensions (a function from keys
\* to tagged values, <<>> for nil).
WithExtensions(canonical, extensions) ==
  [Type |-> canonical.Type, Height |-> canonical.Height, Round |-> canonical.Round,
   Timestamp |-> canonical.Timestamp, BlockHash |-> canonical.BlockHash,
   PrevHash |-> canonical.PrevHash, Proposer |-> canonical.Proposer,
   Validator |-> canonical.Validator, Signature |-> canonical.Signature,
   Extensions |-> extensions]

\* v, ok := extensions[key].(t); v is zero when ok is false.
ExtensionOr(extensions, key, t, zero) ==
  IF extensions # <<>> /\ key \in DOMAIN extensions /\ extensions[key].t = t
    THEN extensions[key].v
    ELSE zero

\* CometBFTConsensusMessage of part_005; the part, extension and bit-array
\* fields are left out.
CometMessage(msgType, voteType, height, round, ts, version, step, lastCommitRound, hash, prev, proposer, validator, index, sig, polRound) ==
  [MessageType |-> msgType, VoteType |-> voteType, Height |-> height, Round |-> round,
   Timestamp |-> ts, Version |-> version, Step |-> step,
   LastCommitRound |-> lastCommitRound, Hash |-> hash, PrevHash |-> prev,
   ProposerAddress |-> proposer, ValidatorAddress |-> validator,
   ValidatorIndex |-> index, Signature |-> sig, POLRound |-> polRound]

\* cometMsg as FromCanonical starts it.
CometHeader(msg, msgType, voteType) ==
  CometMessage(msgType, voteType, msg.Height, msg.Round, msg.Timestamp, "0.38.17",
               0, 0, <<>>, <<>>, <<>>, <<>>, 0, <<>>, 0)

\* The switch on msg.Type of CometBFTMapper.FromCanonical.
CometFromType(msg) ==
  IF msg.Type = MsgTypeProposal THEN
    [CometHeader(msg, NativeProposal, "") EXCEPT
       !.Hash = msg.BlockHash, !.PrevHash = msg.PrevHash,
       !.ProposerAddress = msg.Proposer, !.Signature = msg.Signature,
       !.POLRound = ExtensionOr(msg.Extensions, "pol_round", "int32", 0)]
  ELSE IF msg.Type = MsgTypePrevote THEN
    [CometHeader(msg, NativeVote, "PrevoteType") EXCEPT
       !.Hash = msg.BlockHash, !.ValidatorAddress = msg.Validator,
       !.Signature = msg.Signature]
  ELSE IF msg.Type = MsgTypePrecommit THEN
    [CometHeader(msg, NativeVote, "PrecommitType") EXCEPT
       !.Hash = msg.BlockHash, !.ValidatorAddress = msg.Validator,
       !.Signature = msg.Signature]
  ELSE IF msg.Type = MsgTypeBlock THEN
    [CometHeader(msg, NativeBlockPart, "") EXCEPT !.Hash = msg.BlockHash]
  ELSE
    [CometHeader(msg, NativeNewRoundStep, "") EXCEPT
       !.Step = ExtensionOr(msg.Extensions, "step", "uint32", 0),
       !.LastCommitRound = ExtensionOr(msg.Extensions, "last_commit_round", "int32", 0)]

\* abstraction.RawConsensusMessage; the payload is the JSON document, held as
\* the object it encodes.
Raw(chainType, msgType, encoding, payload) ==
  [ChainType |-> chainType, MessageType |-> msgType, Encoding |-> encoding,
   Payload |-> payload]

\* json.Marshal(cometMsg): height and round are written as numbers, null
\* when nil.
CometJSON(cometMsg) ==
  [cometMsg EXCEPT !.Height = [kind |-> IF @ = NilBig THEN "null" ELSE "number", v |-> @],
                   !.Round = [kind |-> IF @ = NilBig THEN "null" ELSE "number", v |-> @]]

\* CometBFTMapper.FromCanonical (part_005)
MapperFromCanonical(msg) ==
  IF msg = NilCanonical THEN MapperErr("MISSING_FIELD")
  ELSE MapperOk(Raw("cometbft", CometFromType(msg).MessageType, "json",
                    CometJSON(CometFromType(msg))))

\* CometBFTMapper.GetSupportedTypes (part_005)
MapperGetSupportedTypes ==
  {MsgTypeProposal, MsgTypePrevote, MsgTypePrecommit, MsgTypeBlock}

\* CometBFTMapper.mapMessageType (part_005)
MapperMapMessageType(cometType) ==
  IF cometType = NativeProposal THEN MsgTypeProposal
  ELSE IF cometType = NativeVote THEN MsgTypeVote
  ELSE IF cometType = NativeBlockPart THEN MsgTypeBlock
  ELSE IF cometType \in NativeInternal THEN MsgTypeProposal
  ELSE cometType

\* json.Unmarshal(payload, &cometMsg) fails: the payload is no JSON object,
\* or height or round is a JSON string (a *big.Int is read from a number).
UnmarshalFails(payload) ==
  \/ payload = <<>>
  \/ payload.Height.kind = "string"
  \/ payload.Round.kind = "string"

\* The struct json.Unmarshal fills; the key "type" has no field and is
\* ignored.
Unmarshalled(payload) ==
  CometMessage(payload.MessageType, payload.VoteType,
               IF payload.Height.kind = "number" THEN payload.Height.v ELSE NilBig,
               IF payload.Round.kind = "number" THEN payload.Round.v ELSE NilBig,
               payload.Timestamp, payload.Version, payload.Step, payload.LastCommitRound,
               payload.Hash, payload.PrevHash, payload.ProposerAddress,
               payload.ValidatorAddress, payload.ValidatorIndex, payload.Signature,
               payload.POLRound)

\* The extensions every canonical message gets.
CommonExtensions(cometMsg) ==
  [cometbft_version |-> [t |-> "string", v |-> cometMsg.Version],
   step |-> [t |-> "uint32", v |-> cometMsg.Step],
   last_commit_round |-> [t |-> "int32", v |-> cometMsg.LastCommitRound]]

\* The extensions of the message type (the part, proof and bit-array entries
\* are left out).
CometExtensions(cometMsg) ==
  IF cometMsg.MessageType = NativeProposal THEN
    [pol_round |-> [t |-> "int32", v |-> cometMsg.POLRound]] @@ CommonExtensions(cometMsg)
  ELSE IF cometMsg.MessageType = NativeVote THEN
    [vote_type |-> [t |-> "string", v |-> cometMsg.VoteType],
     validator_index |-> [t |-> "int32", v |-> cometMsg.ValidatorIndex]]
      @@ CommonExtensions(cometMsg)
  ELSE IF cometMsg.MessageType \in {NativeVoteSetMaj23, NativeVoteSetBits} THEN
    [vote_type |-> [t |-> "string", v |-> cometMsg.VoteType]] @@ CommonExtensions(cometMsg)
  ELSE IF cometMsg.MessageType = NativeHasVote THEN
    [vote_type |-> [t |-> "string", v |-> cometMsg.VoteType],
     validator_index |-> [t |-> "int32", v |-> cometMsg.ValidatorIndex]]
      @@ CommonExtensions(cometMsg)
  ELSE CommonExtensions(cometMsg)

\* The canonical message of the parsed cometMsg.
CometToCanonical(cometMsg) ==
  WithExtensions(
    Canonical(MapperMapMessageType(cometMsg.MessageType), cometMsg.Height,
              cometMsg.Round, cometMsg.Timestamp,
              IF cometMsg.MessageType \in {NativeProposal, NativeVote, NativeBlockPart,
                                           NativeNewValidBlock, NativeVoteSetMaj23,
                                           NativeVoteSetBits}
                THEN cometMsg.Hash ELSE <<>>,
              IF cometMsg.MessageType = NativeProposal THEN cometMsg.PrevHash ELSE <<>>,
              IF cometMsg.MessageType = NativeProposal THEN cometMsg.ProposerAddress ELSE <<>>,
              IF cometMsg.MessageType = NativeVote THEN cometMsg.ValidatorAddress ELSE <<>>,
              IF cometMsg.MessageType \in {NativeProposal, NativeVote}
                THEN cometMsg.Signature ELSE <<>>),
    CometExtensions(cometMsg))

\* CometBFTMapper.ToCanonical (part_005)
MapperToCanonical(raw) ==
  IF raw.ChainType # "cometbft" THEN MapperErr("CHAIN_MISMATCH")
  ELSE IF raw.Encoding \notin {"json", "proto"} THEN MapperErr("DECODE_FAILURE")
  ELSE IF UnmarshalFails(raw.Payload) THEN MapperErr("DECODE_FAILURE")
  ELSE MapperOk(CometToCanonical(Unmarshalled(raw.Payload)))

\* KaiaMapper.mapToKaiaType
mapToKaiaType(canonicalType) ==
  IF canonicalType = MsgTypeProposal THEN KaiaPreprepare
  ELSE IF canonicalType = MsgTypeVote THEN KaiaPrepare
  ELSE IF canonicalType = MsgTypeBlock THEN KaiaRoundChange
  ELSE canonicalType

\* x.Int64(): the low 64 bits of x, as a big.Int.
Int64(x) == <<x[1], x[2], ((x[3] + 2) % 4) - 2>>

\* int32(x.Int64()): the low 32 bits of x.
Int32(x) == IF x[2] % 2 = 0 THEN x[1] ELSE (x[1] - MaxInt32) - 1

\* kaiaMsg.View
KaiaView(msg) ==
  IF msg.Height # NilBig /\ msg.Round # NilBig
    THEN [Round |-> Int32(msg.Round), Sequence |-> Int64(msg.Height)]
    ELSE <<>>

\* KaiaMapper.FromCanonical; "panic" is the nil dereference of
\* msg.Height.Int64() for a proposal without height.
KaiaFromCanonical(msg) ==
  IF msg = NilCanonical THEN MapperErr("MISSING_FIELD")
  ELSE IF msg.Type = MsgTypeProposal /\ msg.Height = NilBig THEN MapperErr("panic")
  ELSE MapperOk(Raw("kaia", mapToKaiaType(msg.Type), "rlp",
    [MessageType |-> mapToKaiaType(msg.Type), Validator |-> msg.Validator,
     CommittedSeal |-> msg.Signature, Timestamp |-> msg.Timestamp,
     View |-> KaiaView(msg),
     Subject |-> IF msg.Type \in {MsgTypeVote, MsgTypeBlock}
                 THEN [View |-> KaiaView(msg), Digest |-> msg.BlockHash,
                       PrevHash |-> msg.PrevHash]
                 ELSE <<>>,
     Proposal |-> IF msg.Type = MsgTypeProposal
                  THEN [Number |-> Int64(msg.Height), Hash |-> msg.BlockHash,
                        ParentHash |-> msg.PrevHash]
                  ELSE <<>>]))

\* KaiaMapper.GetSupportedTypes
KaiaGetSupportedTypes == {MsgTypeProposal, MsgTypeVote, MsgTypeBlock}

\* BesuMapper.mapToBesuType
mapToBesuType(canonicalType) ==
  IF canonicalType = MsgTypeProposal THEN BesuProposal
  ELSE IF canonicalType = MsgTypePrepare THEN BesuPrepare
  ELSE IF canonicalType = MsgTypeCommit THEN BesuCommit
  ELSE IF canonicalType = MsgTypeViewChange THEN BesuViewChange
  ELSE IF canonicalType = MsgTypeNewView THEN BesuNewView
  ELSE canonicalType

\* BesuMapper.FromCanonical
BesuFromCanonical(msg) ==
  IF msg = NilCanonical THEN MapperErr("MISSING_FIELD")
  ELSE MapperOk(Raw("hyperledger", mapToBesuType(msg.Type), "json",
    [BlockNumber |-> msg.Height, RoundNumber |-> msg.Round,
     Timestamp |-> msg.Timestamp, Type |-> mapToBesuType(msg.Type),
     BlockHash |-> msg.BlockHash, ParentHash |-> msg.PrevHash,
     Proposer |-> msg.Proposer, Validator |-> msg.Validator,
     Signature |-> msg.Signature,
     ConsensusType |-> ExtensionOr(msg.Extensions, "consensus_type", "string", "ibft2")]))

\* BesuMapper.GetSupportedTypes
BesuGetSupportedTypes ==
  {MsgTypeProposal, MsgTypePrepare, MsgTypeCommit, MsgTypeViewChange, MsgTypeNewView}

\* The mapper of a chain.
FromCanonicalOf(chain, msg) ==
  IF chain = "cometbft" THEN MapperFromCanonical(msg)
  ELSE IF chain = "kaia" THEN KaiaFromCanonical(msg)
  ELSE BesuFromCanonical(msg)

GetSupportedTypesOf(chain) ==
  IF chain = "cometbft" THEN MapperGetSupportedTypes
  ELSE IF chain = "kaia" THEN KaiaGetSupportedTypes
  ELSE BesuGetSupportedTypes

(***************************************************************************)
(* FromCanonical followed by ToCanonical of the same mapper.               *)
(***************************************************************************)

\* big.NewInt(int64(n)) for an int32 n.
BigOfInt32(n) == IF n >= 0 THEN <<n, 0, 0>> ELSE <<(n + MaxInt32) + 1, MaxInt32, -1>>

\* KaiaMapper.mapMessageType
KaiaMapMessageType(kaiaType) ==
  IF kaiaType = KaiaPreprepare THEN MsgTypeProposal
  ELSE IF kaiaType \in {KaiaPrepare, <<"C","o","m","m","i","t">>} THEN MsgTypeVote
  ELSE IF kaiaType = KaiaRoundChange THEN MsgTypeBlock
  ELSE kaiaType

\* The view ToCanonical reads height and round from: kaiaMsg.View for a
\* Preprepare, kaiaMsg.Subject.View for the subject messages, else none.
KaiaViewOf(kaiaMsg) ==
  IF kaiaMsg.MessageType = KaiaPreprepare THEN kaiaMsg.View
  ELSE IF kaiaMsg.MessageType \in {KaiaPrepare, <<"C","o","m","m","i","t">>, KaiaRoundChange}
          /\ kaiaMsg.Subject # <<>>
    THEN kaiaMsg.Subject.View
  ELSE <<>>

\* The canonical message of the parsed kaiaMsg; now is time.Now().
KaiaCanonical(kaiaMsg, view, now) ==
  WithExtensions(
    Canonical(KaiaMapMessageType(kaiaMsg.MessageType),
              IF view # <<>> THEN view.Sequence ELSE NilBig,
              IF view # <<>> THEN BigOfInt32(view.Round) ELSE NilBig,
              now,
              IF kaiaMsg.MessageType = KaiaPreprepare
                THEN (IF kaiaMsg.Proposal # <<>> THEN kaiaMsg.Proposal.Hash ELSE <<>>)
                ELSE (IF kaiaMsg.Subject # <<>>
                         /\ kaiaMsg.MessageType \in {KaiaPrepare, <<"C","o","m","m","i","t">>, KaiaRoundChange}
                        THEN kaiaMsg.Subject.Digest ELSE <<>>),
              IF kaiaMsg.MessageType = KaiaPreprepare
                THEN (IF kaiaMsg.Proposal # <<>> THEN kaiaMsg.Proposal.ParentHash ELSE <<>>)
                ELSE (IF kaiaMsg.Subject # <<>>
                         /\ kaiaMsg.MessageType \in {KaiaPrepare, <<"C","o","m","m","i","t">>, KaiaRoundChange}
                        THEN kaiaMsg.Subject.PrevHash ELSE <<>>),
              IF kaiaMsg.MessageType = KaiaPreprepare /\ kaiaMsg.Proposal # <<>>
                THEN <<"p","r","o","p","o","s","e","r">> ELSE <<>>,
              kaiaMsg.Validator, kaiaMsg.CommittedSeal),
    [kaia_message_type |-> [t |-> "string", v |-> kaiaMsg.MessageType],
     timestamp |-> [t |-> "string", v |-> kaiaMsg.Timestamp]])

\* KaiaMapper.ToCanonical; the payload is the JSON object FromCanonical wrote.
KaiaToCanonical(raw, now) ==
  IF raw.ChainType # "kaia" THEN MapperErr("CHAIN_MISMATCH")
  ELSE IF raw.Encoding \notin {"json", "rlp"} THEN MapperErr("DECODE_FAILURE")
  ELSE IF raw.Payload = <<>> THEN MapperErr("DECODE_FAILURE")
  ELSE MapperOk(KaiaCanonical(raw.Payload, KaiaViewOf(raw.Payload), now))

\* BesuMapper.mapMessageType
BesuMapMessageType(besuType) ==
  IF besuType = BesuProposal THEN MsgTypeProposal
  ELSE IF besuType = BesuPrepare THEN MsgTypePrepare
  ELSE IF besuType = BesuCommit THEN MsgTypeCommit
  ELSE IF besuType = BesuViewChange THEN MsgTypeViewChange
  ELSE IF besuType = BesuNewView THEN MsgTypeNewView
  ELSE besuType

\* BesuMapper.ToCanonical
BesuToCanonical(raw) ==
  IF raw.ChainType # "hyperledger" THEN MapperErr("CHAIN_MISMATCH")
  ELSE IF raw.Encoding \notin {"json", "rlp"} THEN MapperErr("DECODE_FAILURE")
  ELSE IF raw.Payload = <<>> THEN MapperErr("DECODE_FAILURE")
  ELSE MapperOk(WithExtensions(
         Canonical(BesuMapMessageType(raw.Payload.Type), raw.Payload.BlockNumber,
                   raw.Payload.RoundNumber, raw.Payload.Timestamp, raw.Payload.BlockHash,
                   raw.Payload.ParentHash, raw.Payload.Proposer, raw.Payload.Validator,
                   raw.Payload.Signature),
         [consensus_type |-> [t |-> "string", v |-> raw.Payload.ConsensusType]]))

\* ToCanonical of the mapper of a chain.
ToCanonicalOf(chain, raw, now) ==
  IF chain = "cometbft" THEN MapperToCanonical(raw)
  ELSE IF chain = "kaia" THEN KaiaToCanonical(raw, now)
  ELSE BesuToCanonical(raw)

\* ToCanonical on the result of FromCanonical, when that is no error.
BackToCanonical(chain, from, now) ==
  [from |-> from,
   to |-> IF from.err = "" THEN ToCanonicalOf(chain, from.msg, now) ELSE MapperErr("not called")]

(***************************************************************************)
(* The validator of canonical messages (part_000, package validator).      *)
(***************************************************************************)

\* *abstraction.MessageValidationError with its Field and Code; NoError is
\* the nil error.
ValidationError(field, code) == [Field |-> field, Code |-> code]
NoError == ValidationError("", "")

\* A canonical message with its chain id.
WithChainID(canonical, chainID) == [ChainID |-> chainID] @@ canonical

\* value.Cmp(big.NewInt(int64(minVal))) < 0, for 0 <= minVal <= MaxInt32
BigBelow(value, minVal) ==
  \/ value[3] < 0
  \/ (value[3] = 0 /\ value[2] = 0 /\ value[1] < minVal)

\* Validator.checkFieldPresent
checkFieldPresent(msg, field) ==
  IF \/ (field = "chain_id" /\ msg.ChainID = <<>>)
     \/ (field = "height" /\ msg.Height = NilBig)
     \/ (field = "timestamp" /\ msg.Timestamp = ZeroTime)
     \/ (field = "type" /\ msg.Type = <<>>)
     \/ (field = "round" /\ msg.Round = NilBig)
     \/ (field = "proposer" /\ msg.Proposer = <<>>)
     \/ (field = "validator" /\ msg.Validator = <<>>)
     \/ (field = "signature" /\ msg.Signature = <<>>)
     \/ (field = "block_hash" /\ msg.BlockHash = <<>>)
    THEN ValidationError(field, "MISSING_FIELD")
    ELSE NoError

\* The error of the first field, in the order of the slice, that is absent.
FirstAbsent(msg, fields, absent) ==
  IF absent = {} THEN NoError
  ELSE checkFieldPresent(msg, fields[CHOOSE i \in absent : \A j \in absent : i <= j])

\* Validator.validateRequiredFields
validateRequiredFields(rules, msg) ==
  FirstAbsent(msg, rules.RequiredFields,
              {i \in 1..Len(rules.RequiredFields) :
                 checkFieldPresent(msg, rules.RequiredFields[i]) # NoError})

\* Validator.checkFieldType (the canonical message of this model has no View)
checkFieldType(msg, field, expectedType) ==
  IF \/ (field = "height" /\ msg.Height # NilBig /\ expectedType = "bigint")
     \/ (field = "round" /\ msg.Round # NilBig /\ expectedType = "bigint")
     \/ (field = "timestamp" /\ msg.Timestamp # ZeroTime /\ expectedType = "time")
     \/ (field = "chain_id" /\ msg.ChainID # <<>> /\ expectedType = "string")
     \/ (field = "type" /\ msg.Type # <<>> /\ expectedType = "string")
    THEN NoError
    ELSE ValidationError(field, "INVALID_FIELD_TYPE")

\* The errors a loop over a map can return: the range visits the keys in an
\* order the runtime chooses and returns at the first error, so the error of
\* any failing key; the nil error when no key fails.
FirstOfMap(errors) == IF errors \ {NoError} = {} THEN {NoError} ELSE errors \ {NoError}

\* Validator.validateFieldTypes
validateFieldTypes(rules, msg) ==
  FirstOfMap({checkFieldType(msg, f, rules.FieldTypes[f]) : f \in DOMAIN rules.FieldTypes})

\* Validator.checkConstraint; now is the clock time.Since reads, in
\* milliseconds.
checkConstraint(msg, field, constraint, now) ==
  IF \/ /\ field = "height" /\ msg.Height # NilBig /\ "min" \in DOMAIN constraint
        /\ BigBelow(msg.Height, constraint.min)
     \/ /\ field = "round" /\ msg.Round # NilBig /\ "min" \in DOMAIN constraint
        /\ BigBelow(msg.Round, constraint.min)
     \/ /\ field = "timestamp" /\ msg.Timestamp # ZeroTime
        /\ "max_age_seconds" \in DOMAIN constraint
        /\ now - msg.Timestamp > constraint.max_age_seconds * 1000
    THEN ValidationError(field, "CONSTRAINT_VIOLATION")
    ELSE NoError

\* Validator.validateConstraints
validateConstraints(rules, msg, now) ==
  FirstOfMap({checkConstraint(msg, f, rules.Constraints[f], now) : f \in DOMAIN rules.Constraints})

\* The error of the first custom rule, in the order of the slice, that fails.
FirstFailed(rules, failed) ==
  IF failed = {} THEN NoError
  ELSE ValidationError(rules[CHOOSE i \in failed : \A j \in failed : i <= j].Name,
                       "CUSTOM_VALIDATION_FAILED")

\* Validator.runCustomRules; the Function of a rule accepts the types of its
\* validTypes map.
runCustomRules(rules, msg) ==
  FirstFailed(rules.CustomRules,
              {i \in 1..Len(rules.CustomRules) : msg.Type \notin rules.CustomRules[i].validTypes})

\* validateCometBFTMessageType, validateHyperledgerMessageType,
\* validateKaiaMessageType as custom rules
CometBFTMessageTypeRule ==
  [Name |-> "cometbft_message_type",
   validTypes |-> {MsgTypeProposal, MsgTypePrevote, MsgTypePrecommit, MsgTypeBlock}]
HyperledgerMessageTypeRule ==
  [Name |-> "hyperledger_message_type",
   validTypes |-> {MsgTypeProposal, MsgTypePrepare, MsgTypeCommit, MsgTypeViewChange,
                   MsgTypeNewView}]
KaiaMessageTypeRule ==
  [Name |-> "kaia_message_type", validTypes |-> {MsgTypeProposal, MsgTypeVote, MsgTypeBlock}]

\* ValidationRules
ValidationRules(required, types, constraints, custom) ==
  [RequiredFields |-> required, FieldTypes |-> types, Constraints |-> constraints,
   CustomRules |-> custom]

\* getDefaultRules
getDefaultRules(chainType) ==
  IF chainType = "cometbft" THEN
    ValidationRules(<<"chain_id", "height", "round", "timestamp", "type">>,
      [chain_id |-> "string", height |-> "bigint", round |-> "bigint",
       timestamp |-> "time", type |-> "string"],
      [height |-> [min |-> 0], round |-> [min |-> 0],
       timestamp |-> [max_age_seconds |-> 3600]],
      <<CometBFTMessageTypeRule>>)
  ELSE IF chainType = "hyperledger" THEN
    ValidationRules(<<"chain_id", "height", "timestamp", "type">>,
      [chain_id |-> "string", height |-> "bigint", timestamp |-> "time",
       type |-> "string"],
      [height |-> [min |-> 0], timestamp |-> [max_age_seconds |-> 7200]],
      <<HyperledgerMessageTypeRule>>)
  ELSE IF chainType = "kaia" THEN
    ValidationRules(<<"chain_id", "height", "round", "timestamp", "type">>,
      [chain_id |-> "string", height |-> "bigint", round |-> "bigint",
       timestamp |-> "time", type |-> "string"],
      [height |-> [min |-> 0], round |-> [min |-> 0],
       timestamp |-> [max_age_seconds |-> 1800]],
      <<KaiaMessageTypeRule>>)
  ELSE
    ValidationRules(<<"chain_id", "height", "timestamp", "type">>,
      [chain_id |-> "string", height |-> "bigint", timestamp |-> "time",
       type |-> "string"],
      <<>>, <<>>)

\* NewValidator
NewValidator(chainType) == [chainType |-> chainType, rules |-> getDefaultRules(chainType)]

\* Validate with the custom rules run before the other layers.
ValidateCustomFirst(v, msg, now) ==
  IF msg = NilCanonical THEN {ValidationError("message", "MISSING_FIELD")}
  ELSE IF runCustomRules(v.rules, msg) # NoError THEN {runCustomRules(v.rules, msg)}
  ELSE IF validateRequiredFields(v.rules, msg) # NoError
    THEN {validateRequiredFields(v.rules, msg)}
  ELSE IF validateFieldTypes(v.rules, msg) # {NoError} THEN validateFieldTypes(v.rules, msg)
  ELSE validateConstraints(v.rules, msg, now)

\* Validator.Validate: the errors the call can return.
Validate(v, msg, now) ==
  IF msg = NilCanonical THEN {ValidationError("message", "MISSING_FIELD")}
  ELSE IF validateRequiredFields(v.rules, msg) # NoError
    THEN {validateRequiredFields(v.rules, msg)}
  ELSE IF validateFieldTypes(v.rules, msg) # {NoError} THEN validateFieldTypes(v.rules, msg)
  ELSE IF validateConstraints(v.rules, msg, now) # {NoError}
    THEN validateConstraints(v.rules, msg, now)
  ELSE {runCustomRules(v.rules, msg)}

(***************************************************************************)
(* NewConfig, parseNetworkAddress and ParseDirection                       *)
(* (proxy/engine/config.go).                                               *)
(***************************************************************************)

\* strings.TrimSpace, for text whose only white space is " "
RECURSIVE TrimLeft(_)
TrimLeft(s) == IF s # <<>> /\ Head(s) = " " THEN TrimLeft(Tail(s)) ELSE s

RECURSIVE TrimRight(_)
TrimRight(s) ==
  IF s # <<>> /\ s[Len(s)] = " " THEN TrimRight(SubSeq(s, 1, Len(s) - 1)) ELSE s

TrimSpace(s) == TrimRight(TrimLeft(s))

\* The positions where "://" starts in s; strings.Contains(s, "://") when
\* there is one.
SchemeMarks(s) ==
  {i \in 1..Len(s) : i + 2 <= Len(s) /\ s[i] = ":" /\ s[i + 1] = "/" /\ s[i + 2] = "/"}

\* url.Parse for text of the form scheme://host: an empty scheme is the
\* error "missing protocol scheme".
UrlParse(raw, mark) ==
  IF mark = 1 THEN [err |-> "missing protocol scheme", Scheme |-> <<>>, Host |-> <<>>]
  ELSE [err |-> "", Scheme |-> SubSeq(raw, 1, mark - 1), Host |-> SubSeq(raw, mark + 3, Len(raw))]

\* The checks of parseNetworkAddress on the parsed URL.
AddressOfUrl(u) ==
  IF u.err # "" THEN [err |-> u.err, network |-> <<>>, address |-> <<>>]
  ELSE IF u.Scheme = <<>> THEN [err |-> "missing scheme", network |-> <<>>, address |-> <<>>]
  ELSE IF u.Host = <<>> THEN [err |-> "missing host", network |-> <<>>, address |-> <<>>]
  ELSE [err |-> "", network |-> u.Scheme, address |-> u.Host]

\* parseNetworkAddress after strings.TrimSpace
ParseTrimmed(raw) ==
  IF raw = <<>> THEN [err |-> "address cannot be empty", network |-> <<>>, address |-> <<>>]
  ELSE IF SchemeMarks(raw) = {} THEN [err |-> "", network |-> <<"t","c","p">>, address |-> raw]
  ELSE AddressOfUrl(UrlParse(raw, CHOOSE i \in SchemeMarks(raw) : \A j \in SchemeMarks(raw) : i <= j))

\* parseNetworkAddress
parseNetworkAddress(raw) == ParseTrimmed(TrimSpace(raw))

\* ConfigOptions (Action, Options, Hooks and Logger are copied as they are)
ConfigOptions(listen, upstream, chainID, nodeKey, trigger, direction, dialTimeout) ==
  [ListenAddress |-> listen, UpstreamTarget |-> upstream, ChainID |-> chainID,
   NodeKey |-> nodeKey, Trigger |-> trigger, Direction |-> direction,
   DialTimeout |-> dialTimeout]

\* The result of NewConfig: an error and no Config, or a Config.
ConfigErr(text) == [err |-> text, cfg |-> <<>>]

\* time.Second, in milliseconds.
Second == 1000

\* The Config NewConfig builds from valid options.
BuiltConfig(opts, listen, upstream) ==
  [err |-> "",
   cfg |-> [ListenNetwork |-> listen.network, ListenAddress |-> listen.address,
            UpstreamNetwork |-> upstream.network, UpstreamAddress |-> upstream.address,
            ChainID |-> TrimSpace(opts.ChainID), NodeKey |-> opts.NodeKey,
            Trigger |-> Trigger(opts.Trigger.Height, opts.Trigger.Round,
                                ToLower(TrimSpace(opts.Trigger.Step))),
            Direction |-> opts.Direction,
            DialTimeout |-> IF opts.DialTimeout <= 0 THEN 5 * Second ELSE opts.DialTimeout]]

\* NewConfig
NewConfig(opts) ==
  IF parseNetworkAddress(opts.ListenAddress).err # "" THEN ConfigErr("invalid listen address")
  ELSE IF parseNetworkAddress(opts.UpstreamTarget).err # ""
    THEN ConfigErr("invalid upstream address")
  ELSE IF opts.NodeKey = <<>> THEN ConfigErr("node key is required")
  ELSE IF TrimSpace(opts.ChainID) = <<>> THEN ConfigErr("chain id is required")
  ELSE BuiltConfig(opts, parseNetworkAddress(opts.ListenAddress),
                   parseNetworkAddress(opts.UpstreamTarget))

\* The switch of ParseDirection on the lower-cased, trimmed text.
DirectionOf(text) ==
  IF text \in {<<>>, <<"u","p","s","t","r","e","a","m">>}
    THEN [err |-> "", direction |-> DirectionUpstream]
  ELSE IF text = <<"d","o","w","n","s","t","r","e","a","m">>
    THEN [err |-> "", direction |-> DirectionDownstream]
  ELSE IF text = <<"b","o","t","h">> THEN [err |-> "", direction |-> DirectionBoth]
  ELSE [err |-> "unknown direction", direction |-> DirectionUpstream]

\* ParseDirection
ParseDirection(value) == DirectionOf(ToLower(TrimSpace(value)))

(***************************************************************************)
(* Calls of the pure functions: the argument is drawn in the initial       *)
(* state, one step applies the function.                                   *)
(***************************************************************************)

ByzantineActionUnknown == "unknown"

AllActions ==
  {ByzantineActionNone, ByzantineActionDoubleVote, ByzantineActionDoubleProposal,
   ByzantineActionAlterValidator, ByzantineActionDropSignature,
   ByzantineActionTimestampSkew, ByzantineActionUnknown}

\* Offsets below zero, larger than the height 5 and the round 1 of the inputs.
NegativeOptions == ByzantineOptions(<<>>, <<>>, <<>>, <<"0","2">>, -2, -6, -3)

\* A shift that brings the timestamp back to itself is not possible; a shift
\* only, and a validator only.
ShiftOptions == ByzantineOptions(<<>>, <<>>, <<>>, <<>>, 0, 0, 1)
ValidatorOptions == ByzantineOptions(<<>>, <<>>, <<>>, <<"0","2">>, 0, 0, 0)

CallOptions == {ZeroOptions, FullOptions, NegativeOptions, ShiftOptions, ValidatorOptions}

CallTypes == {MsgTypePrevote, MsgTypePrecommit, MsgTypeVote, MsgTypeProposal, MsgTypeNewView}

\* The cells the input messages point to: height 5, round 1, view 0, the
\* view and height of a view change; seals, view changes, payload, an empty
\* slice; the extensions.
InputInts == <<Big(5), Big(1), Big(0), Big(3), Big(5)>>
InputSlices ==
  << <<"seal">>,
     <<[View |-> 4, Height |-> 5, Validator |-> <<"0","1">>, Signature |-> <<"s","1">>]>>,
     <<1, 2>>,
     <<>> >>
InputMaps == <<[vote_type |-> 1]>>

\* A message with height and round only.
PlainInput(type) ==
  CanonicalAt(<<"c","1">>, type, 1, 2, Nil, 100, <<"a","b">>, <<"c","d">>, <<"0","1">>, <<"0","1">>,
              <<"s","1">>, Nil, Nil, Nil, Nil)

\* A message with every pointer, slice and map set.
RichInput(type) ==
  CanonicalAt(<<"c","1">>, type, 1, 2, 3, 100, <<"a","b">>, <<"c","d">>, <<"0","1">>, <<"0","1">>,
              <<"s","1">>, 1, 2, 1, 3)

\* A message without height, round, timestamp and hashes, with empty slices.
BareInput(type) ==
  CanonicalAt(<<"c","1">>, type, Nil, Nil, Nil, ZeroTime, <<>>, <<>>, <<>>, <<>>, <<>>, 4, 4, Nil, 4)

InputMemories ==
  {Memory(<<m>>, InputInts, InputSlices, InputMaps) :
     m \in UNION {{PlainInput(t), RichInput(t), BareInput(t)} : t \in CallTypes}}

MutatorCalls ==
  {[fn |-> "ApplyByzantineCanonical", mem |-> M, msg |-> p, action |-> a, opts |-> o] :
     M \in InputMemories, p \in {Nil, 1}, a \in AllActions, o \in CallOptions}

AllMsgTypes ==
  {MsgTypeProposal, MsgTypePrepare, MsgTypeVote, MsgTypeCommit, MsgTypeViewChange,
   MsgTypeNewView, MsgTypeBlock, MsgTypePrevote, MsgTypePrecommit}

CanonicalInputs ==
  {NilCanonical} \cup
  {WithExtensions(Canonical(t, h, Big(1), 100, <<"a","b">>, <<"c","d">>, <<"0","1">>,
                            <<"0","2">>, <<"s","1">>), <<>>) :
     t \in AllMsgTypes, h \in {NilBig, Big(5)}}

Chains == {"cometbft", "kaia", "hyperledger"}

FromCanonicalCalls ==
  {[fn |-> "FromCanonical", chain |-> c, msg |-> m] : c \in Chains, m \in CanonicalInputs}

\* The JSON document of a vote: the keys "type" (the numeric subtype),
\* "message_type" and "vote_type" (the names part_005 reads), "height" and
\* "round" as JSON strings or numbers.
VotePayload(type, msgType, voteType, kind) ==
  [Type |-> type, MessageType |-> msgType, VoteType |-> voteType,
   Height |-> [kind |-> kind, v |-> Big(1000)], Round |-> [kind |-> kind, v |-> Big(0)],
   Timestamp |-> ZeroTime, Version |-> "", Step |-> 0, LastCommitRound |-> 0,
   Hash |-> <<"a","b">>, PrevHash |-> <<>>, ProposerAddress |-> <<>>,
   ValidatorAddress |-> <<"0","1">>, ValidatorIndex |-> 0, Signature |-> <<"s","1">>,
   POLRound |-> 0]

\* The name of a vote subtype in part_005.
VoteTypeName(type) == IF type = PrevoteType THEN "PrevoteType" ELSE "PrecommitType"

\* The payload of TestVoteTypeFix (type and quoted height), the same with
\* numeric height, and the document FromCanonical of part_005 writes.
VotePayloads ==
  UNION {{VotePayload(t, <<>>, "", "string"),
          VotePayload(t, <<>>, "", "number"),
          VotePayload(t, NativeVote, VoteTypeName(t), "number")} :
         t \in {PrevoteType, PrecommitType}}

RoundTripCalls ==
  {[fn |-> "RoundTrip", raw |-> Raw("cometbft", NativeVote, "json", p)] : p \in VotePayloads}

\* The canonical messages that are sent through FromCanonical and back:
\* every type, with and without height, with a timestamp and with the zero
\* time; now is what time.Now() returns during the call.
BackCalls ==
  {[fn |-> "FromToCanonical", chain |-> c, now |-> n,
    msg |-> WithExtensions(Canonical(t, h, Big(1), ts, <<"a","b">>, <<"c","d">>, <<"0","1">>,
                                     <<"0","2">>, <<"s","1">>), <<>>)] :
     c \in Chains, n \in {100, 200}, t \in AllMsgTypes, h \in {NilBig, Big(5)},
     ts \in {ZeroTime, 100}}

\* The clock of the validator calls, a timestamp older than every
\* max_age_seconds and one a second old (milliseconds).
ValidateTimes == [now |-> 8000000, old |-> 100, fresh |-> 7999000]

\* The messages handed to Validate: with and without chain id, height, round,
\* timestamp and type; negative height and round; every message type.
ValidateCalls ==
  {[fn |-> "Validate", chainType |-> c, now |-> ValidateTimes.now, msg |-> NilCanonical] :
     c \in Chains \cup {"fabric"}} \cup
  {[fn |-> "Validate", chainType |-> c, now |-> ValidateTimes.now,
    msg |-> WithChainID(Canonical(t, h, r, ts, <<"a","b">>, <<>>, <<>>, <<"0","1">>, <<>>), id)] :
     c \in Chains \cup {"fabric"}, id \in {<<>>, <<"c","1">>},
     t \in {<<>>, MsgTypeProposal, MsgTypePrevote, MsgTypePrecommit, MsgTypeBlock, MsgTypeVote,
            MsgTypeNewView},
     h \in {NilBig, Big(5), BigAdd(Big(0), -1)}, r \in {NilBig, Big(0), BigAdd(Big(0), -2)},
     ts \in {ZeroTime, ValidateTimes.old, ValidateTimes.fresh}}

\* The addresses given to NewConfig: empty, blank, host:port with and
\* without spaces around it, with a scheme, and with "://" but no scheme or
\* no host.
Addresses ==
  { <<>>, <<" ">>, <<"h",":","1">>, <<" ","h",":","1"," ">>,
    <<"t","c","p",":","/","/","h",":","1">>, <<"u","n","i","x",":","/","/","s">>,
    <<":","/","/","h",":","1">>, <<"t","c","p",":","/","/">> }

\* A Direction value outside the three constants.
DirectionOther == "Direction(3)"

\* The options given to NewConfig; the node key is <<>> when nil.
NewConfigCalls ==
  {[fn |-> "NewConfig",
    opts |-> ConfigOptions(l, u, id, k, Trigger(NilInt, NilInt, step), d, t)] :
     l \in Addresses, u \in {<<>>, <<"h",":","2">>, <<"t","c","p",":","/","/">>},
     id \in {<<>>, <<" ">>, <<" ","c","1">>}, k \in {<<>>, <<"key">>},
     step \in {<<>>, <<" ","P","r","e","V","o","t","e">>},
     d \in {DirectionUpstream, DirectionBoth, DirectionOther}, t \in {-1, 0, 3000}}

\* The texts of --mutate-direction.
ParseDirectionCalls ==
  {[fn |-> "ParseDirection", value |-> v] :
     v \in { <<>>, <<" ">>, <<"u","p","s","t","r","e","a","m">>,
             <<" ","D","o","w","n","s","t","r","e","a","m">>, <<"b","o","t","h">>,
             <<"s","i","d","e">> }}

\* The characters of the hashes given to chooseAlternateHash: those it
\* replaces and three it leaves alone.
HashChars == {"0", "1", "a", "A", "f", "F", "9", "c", "x"}

\* Every text of up to three of these characters, without an override, with
\* one, and with the original itself as the override.
ChooseAlternateHashCalls ==
  {[fn |-> "chooseAlternateHash", original |-> o, provided |-> p] :
     o \in UNION {[1..n -> HashChars] : n \in 0..3}, p \in {<<>>, <<"b","e">>}} \cup
  {[fn |-> "chooseAlternateHash", original |-> o, provided |-> o] :
     o \in [1..2 -> HashChars]}

Calls == MutatorCalls \cup FromCanonicalCalls \cup RoundTripCalls \cup BackCalls
         \cup ValidateCalls \cup NewConfigCalls \cup ParseDirectionCalls
         \cup ChooseAlternateHashCalls

InitCalls ==
  /\ EngineListening
  /\ arg \in Calls
  /\ res = NoCall
  /\ NoSim

CallApplyByzantineCanonical ==
  /\ res = NoCall
  /\ arg.fn = "ApplyByzantineCanonical"
  /\ res' = ApplyByzantineCanonicalAt(arg.mem, arg.msg, arg.action, arg.opts)
  /\ UNCHANGED <<arg, simVars, sessionVars, engineVars>>

\* mapper.FromCanonical(msg) of the mapper of arg.chain.
CallFromCanonical ==
  /\ res = NoCall
  /\ arg.fn = "FromCanonical"
  /\ res' = FromCanonicalOf(arg.chain, arg.msg)
  /\ UNCHANGED <<arg, simVars, sessionVars, engineVars>>

\* FromCanonical on the result of ToCanonical, when that is no error.
BackFromCanonical(to) ==
  [to |-> to,
   from |-> IF to.err = "" THEN MapperFromCanonical(to.msg) ELSE MapperErr("not called")]

\* mapper.ToCanonical(rawVote), then mapper.FromCanonical(canonical).
CallRoundTrip ==
  /\ res = NoCall
  /\ arg.fn = "RoundTrip"
  /\ res' = BackFromCanonical(MapperToCanonical(arg.raw))
  /\ UNCHANGED <<arg, simVars, sessionVars, engineVars>>

\* mapper.FromCanonical(canonical), then mapper.ToCanonical(*raw)
\* (testCrossChainConversion).
CallFromToCanonical ==
  /\ res = NoCall
  /\ arg.fn = "FromToCanonical"
  /\ res' = BackToCanonical(arg.chain, FromCanonicalOf(arg.chain, arg.msg), arg.now)
  /\ UNCHANGED <<arg, simVars, sessionVars, engineVars>>

\* NewValidator(chainType).Validate(msg)
CallValidate ==
  /\ res = NoCall
  /\ arg.fn = "Validate"
  /\ \E e \in Validate(NewValidator(arg.chainType), arg.msg, arg.now) : res' = e
  /\ UNCHANGED <<arg, simVars, sessionVars, engineVars>>

\* engine.NewConfig(opts)
CallNewConfig ==
  /\ res = NoCall
  /\ arg.fn = "NewConfig"
  /\ res' = NewConfig(arg.opts)
  /\ UNCHANGED <<arg, simVars, sessionVars, engineVars>>

\* engine.ParseDirection(value)
CallParseDirection ==
  /\ res = NoCall
  /\ arg.fn = "ParseDirection"
  /\ res' = ParseDirection(arg.value)
  /\ UNCHANGED <<arg, simVars, sessionVars, engineVars>>

\* chooseAlternateHash(original, provided)
CallChooseAlternateHash ==
  /\ res = NoCall
  /\ arg.fn = "chooseAlternateHash"
  /\ res' = [hash |-> chooseAlternateHash(arg.original, arg.provided)]
  /\ UNCHANGED <<arg, simVars, sessionVars, engineVars>>

NextCalls ==
  \/ CallApplyByzantineCanonical
  \/ CallFromCanonical
  \/ CallRoundTrip
  \/ CallFromToCanonical
  \/ CallValidate
  \/ CallNewConfig
  \/ CallParseDirection
  \/ CallChooseAlternateHash

SpecCalls == InitCalls /\ [][NextCalls]_vars

\* The call of the mutator has returned.
MutatorReturned == res # NoCall /\ arg.fn = "ApplyByzantineCanonical"

\* What a slice holds; a nil slice holds nothing.
SliceAt(M, a) == IF a = Nil THEN <<>> ELSE M.slices[a]

\* What a *big.Int points to.
IntAt(M, a) == IF a = Nil THEN NilBig ELSE M.ints[a]

\* The view changes with their pointers followed.
ChangesAt(M, a) ==
  [k \in 1..Len(SliceAt(M, a)) |->
     [SliceAt(M, a)[k] EXCEPT !.View = IntAt(M, @), !.Height = IntAt(M, @)]]

\* The message at address p with its pointers followed.
MessageAt(M, p) ==
  [M.msgs[p] EXCEPT !.Height = IntAt(M, @), !.Round = IntAt(M, @), !.View = IntAt(M, @),
                    !.CommitSeals = SliceAt(M, @), !.RawPayload = SliceAt(M, @),
                    !.ViewChanges = ChangesAt(M, @),
                    !.Extensions = IF @ = Nil THEN Nil ELSE <<M.maps[@]>>]

\* Every cell of memory M is in N what it is in M.
Preserved(M, N) ==
  /\ SubSeq(N.msgs, 1, Len(M.msgs)) = M.msgs
  /\ SubSeq(N.ints, 1, Len(M.ints)) = M.ints
  /\ SubSeq(N.slices, 1, Len(M.slices)) = M.slices
  /\ SubSeq(N.maps, 1, Len(M.maps)) = M.maps

\* The message at q in N is not the one at p and points to no big.Int,
\* slice or map that memory M holds.
DistinctObject(M, N, p, q) ==
  /\ q # p
  /\ q > Len(M.msgs)
  /\ \A f \in {"Height", "Round", "View"} : N.msgs[q][f] = Nil \/ N.msgs[q][f] > Len(M.ints)
  /\ \A f \in {"CommitSeals", "ViewChanges", "RawPayload"} :
       N.msgs[q][f] = Nil \/ N.msgs[q][f] > Len(M.slices)
  /\ N.msgs[q].Extensions = Nil \/ N.msgs[q].Extensions > Len(M.maps)
  /\ \A k \in 1..Len(SliceAt(N, N.msgs[q].ViewChanges)) :
       \A f \in {"View", "Height"} :
         SliceAt(N, N.msgs[q].ViewChanges)[k][f] = Nil
           \/ SliceAt(N, N.msgs[q].ViewChanges)[k][f] > Len(M.ints)

\* The actions whose first output is the original.
KeepsOriginal(action) ==
  action \in {ByzantineActionNone, ByzantineActionDoubleVote, ByzantineActionDoubleProposal}

\* C14: ApplyByzantineCanonical leaves every cell of the memory it was given
\* as it was, whatever the action and the options, so every field of the
\* input message is the same after the call; for none, double_vote and
\* double_proposal the first output is another object than the input, shares
\* no big.Int, slice or map with it, and has the same chain id, type, height,
\* round, view, timestamp, hashes, proposer, validator, signature, seals,
\* view changes and extensions.
C14_InputClonedNotMutated ==
  MutatorReturned =>
    /\ Preserved(arg.mem, res.mem)
    /\ arg.msg # Nil => MessageAt(res.mem, arg.msg) = MessageAt(arg.mem, arg.msg)
    /\ KeepsOriginal(arg.action) /\ ~res.err =>
         /\ DistinctObject(arg.mem, res.mem, arg.msg, res.out[1])
         /\ MessageAt(res.mem, res.out[1]) = MessageAt(arg.mem, arg.msg)

C14_Witness ==
  /\ MutatorReturned
  /\ arg.action = ByzantineActionDoubleVote
  /\ arg.opts = FullOptions
  /\ arg.msg # Nil
  /\ arg.mem.msgs[1] = RichInput(MsgTypePrevote)
  /\ Len(res.out) = 2
  /\ MessageAt(res.mem, res.out[2]) # MessageAt(arg.mem, arg.msg)

\* The timestamp of output k of the returned call.
OutTimestamp(k) == res.mem.msgs[res.out[k]].Timestamp

\* The call returned the original and a mutated copy.
DoubleReturned ==
  /\ MutatorReturned
  /\ arg.action \in {ByzantineActionDoubleVote, ByzantineActionDoubleProposal}
  /\ ~res.err

\* C15: for double_vote and double_proposal, for every valid input and every
\* option set (zero, positive or negative TimestampShift, an input whose
\* timestamp is zero included), the timestamp of the second output is
\* strictly greater than the timestamp of the first output.
C15_SecondTimestampLater ==
  DoubleReturned => OutTimestamp(2) > OutTimestamp(1)

\* The requirement of the action is met by the message and the options.
RequirementMet(type, action, opts) ==
  IF action = ByzantineActionDoubleVote THEN type \in {MsgTypeVote, MsgTypePrevote, MsgTypePrecommit}
  ELSE IF action = ByzantineActionDoubleProposal THEN type = MsgTypeProposal
  ELSE IF action = ByzantineActionAlterValidator
    THEN /\ opts.AlternateValidator # <<>>
         /\ type \in {MsgTypeVote, MsgTypePrevote, MsgTypePrecommit, MsgTypeProposal}
  ELSE IF action = ByzantineActionTimestampSkew THEN opts.TimestampShift # 0
  ELSE action \in {ByzantineActionNone, ByzantineActionDropSignature}

\* The number of outputs of an action that succeeds.
OutputCount(action) ==
  IF action \in {ByzantineActionDoubleVote, ByzantineActionDoubleProposal} THEN 2 ELSE 1

\* C16: ApplyByzantineCanonical returns an error and no outputs exactly when
\* the input is nil, the action is unknown, or the requirement of the action
\* is unmet (double_vote on a type that is not a vote, double_proposal on a
\* type that is not a proposal, alter_validator without AlternateValidator
\* or on a type that is neither, timestamp_skew with a zero TimestampShift);
\* otherwise it returns 2 outputs for double_vote and double_proposal and 1
\* output for none, alter_validator, drop_signature and timestamp_skew, each
\* of them a message in memory.
C16_ErrorExactlyWhenUnmet ==
  MutatorReturned =>
    /\ res.err <=> (arg.msg = Nil
                      \/ ~RequirementMet(arg.mem.msgs[1].Type, arg.action, arg.opts))
    /\ res.err => res.out = <<>>
    /\ ~res.err => /\ Len(res.out) = OutputCount(arg.action)
                   /\ \A k \in 1..Len(res.out) : res.out[k] \in 1..Len(res.mem.msgs)

\* alter_validator with a validator on a NewView message is refused.
C16_Witness ==
  /\ MutatorReturned
  /\ arg.msg # Nil
  /\ arg.action = ByzantineActionAlterValidator
  /\ arg.opts.AlternateValidator # <<>>
  /\ arg.mem.msgs[1].Type = MsgTypeNewView
  /\ res.err

\* The big.Int x is below zero.
Negative(x) == x # NilBig /\ x[3] < 0

\* The offset would bring the field of the input below zero.
WouldBeNegative(field, offset) ==
  /\ offset # 0
  /\ Negative(BigAdd(IF arg.mem.msgs[1][field] = Nil THEN Big(0)
                     ELSE arg.mem.ints[arg.mem.msgs[1][field]], offset))

\* C17: for every action but none, a HeightOffset or RoundOffset that would
\* make the height or the round negative is refused with an error, and no
\* output of the mutator has a height or a round below zero (the heights and
\* rounds of the inputs are all zero or more).
C17_NegativeOffsetsRejected ==
  MutatorReturned /\ arg.msg # Nil /\ arg.action # ByzantineActionNone =>
    /\ WouldBeNegative("Height", arg.opts.HeightOffset)
         \/ WouldBeNegative("Round", arg.opts.RoundOffset) => res.err
    /\ \A k \in 1..Len(res.out) :
         /\ ~Negative(IntAt(res.mem, res.mem.msgs[res.out[k]].Height))
         /\ ~Negative(IntAt(res.mem, res.mem.msgs[res.out[k]].Round))

\* The input message and the mutated (last) output, pointers followed.
InputMessage == MessageAt(arg.mem, arg.msg)
MutatedOutput == MessageAt(res.mem, res.out[Len(res.out)])

\* value + offset, an absent value counting as zero once an offset is given.
Shifted(value, offset) ==
  IF offset = 0 THEN value
  ELSE BigAdd(IF value = NilBig THEN Big(0) ELSE value, offset)

\* The timestamp t + shift, one millisecond later when that is t again and
\* t is not the zero time.
ShiftedTime(t, shift) ==
  IF shift = 0 /\ t # ZeroTime THEN t + 1 ELSE t + shift

\* The fields the action itself changes, on message m.
ActionSpecific(m, action, opts) ==
  IF action \in {ByzantineActionDoubleVote, ByzantineActionDoubleProposal} THEN
    [m EXCEPT !.BlockHash = chooseAlternateHash(m.BlockHash, opts.AlternateBlockHash),
              !.PrevHash = IF action = ByzantineActionDoubleVote THEN @
                           ELSE IF opts.AlternatePrevHash # <<>> THEN opts.AlternatePrevHash
                           ELSE chooseAlternateHash(@, <<>>),
              !.Signature = IF opts.AlternateSignature # <<>>
                            THEN opts.AlternateSignature ELSE @]
  ELSE IF action = ByzantineActionAlterValidator THEN
    IF m.Type = MsgTypeProposal THEN [m EXCEPT !.Proposer = opts.AlternateValidator]
    ELSE [m EXCEPT !.Validator = opts.AlternateValidator]
  ELSE IF action = ByzantineActionDropSignature THEN [m EXCEPT !.Signature = <<>>]
  ELSE m

\* C18: for every action but none the mutated output is the input with the
\* action's own changes (block hash, previous hash and signature override,
\* validator or proposer override, signature cleared) and with height =
\* input height + HeightOffset, round = input round + RoundOffset and
\* timestamp = input timestamp + TimestampShift, one millisecond more only
\* when it would otherwise be the input's timestamp; the first output of
\* double_vote and double_proposal carries the height, round and timestamp of
\* the input.
C18_CommonMutations ==
  MutatorReturned /\ ~res.err /\ arg.action # ByzantineActionNone =>
    /\ MutatedOutput =
         [ActionSpecific(InputMessage, arg.action, arg.opts) EXCEPT
            !.Height = Shifted(@, arg.opts.HeightOffset),
            !.Round = Shifted(@, arg.opts.RoundOffset),
            !.Timestamp = ShiftedTime(@, arg.opts.TimestampShift)]
    /\ Len(res.out) = 2 =>
         /\ MessageAt(res.mem, res.out[1]).Height = InputMessage.Height
         /\ MessageAt(res.mem, res.out[1]).Round = InputMessage.Round
         /\ MessageAt(res.mem, res.out[1]).Timestamp = InputMessage.Timestamp

\* The double vote of the test: height + 2, round + 1, timestamp + 2 ms and
\* the overrides on the second output.
C18_Witness ==
  /\ MutatorReturned
  /\ arg.action = ByzantineActionDoubleVote
  /\ arg.opts = FullOptions
  /\ arg.msg # Nil
  /\ arg.mem.msgs[1] = PlainInput(MsgTypePrevote)
  /\ Len(res.out) = 2
  /\ MutatedOutput.Height = Big(7)
  /\ MutatedOutput.Round = Big(2)
  /\ MutatedOutput.Timestamp = 102
  /\ MutatedOutput.BlockHash = <<"A","A">>
  /\ MutatedOutput.Signature = <<"s","2">>

FromCanonicalReturned == res # NoCall /\ arg.fn = "FromCanonical"

RoundTripReturned == res # NoCall /\ arg.fn = "RoundTrip"

\* C19: for every adapter, FromCanonical fails with UnsupportedType and
\* produces no raw message whenever the type of the canonical message is not
\* in the adapter's GetSupportedTypes(); a NewView message given to the
\* CometBFT adapter is such a case.
C19_UnsupportedTypeRejected ==
  FromCanonicalReturned /\ arg.msg # NilCanonical
    /\ arg.msg.Type \notin GetSupportedTypesOf(arg.chain) =>
      /\ res.err = "UNSUPPORTED_TYPE"
      /\ res.msg = <<>>

\* The canonical type of a vote subtype.
CanonicalVoteType(type) == IF type = PrevoteType THEN MsgTypePrevote ELSE MsgTypePrecommit

\* C20: in the CometBFT adapter ToCanonical maps a Vote of native subtype 1
\* to Prevote and of subtype 2 to Precommit, FromCanonical maps Prevote and
\* Precommit to a Vote of subtype 1 and 2, and ToCanonical followed by
\* FromCanonical returns a message of type "Vote" with the original subtype.
C20_VoteSubtypeBijection ==
  /\ RoundTripReturned =>
       /\ res.to.err = ""
       /\ res.to.msg.Type = CanonicalVoteType(arg.raw.Payload.Type)
       /\ res.from.err = ""
       /\ res.from.msg.MessageType = NativeVote
       /\ res.from.msg.Payload.VoteType = VoteTypeName(arg.raw.Payload.Type)
  /\ FromCanonicalReturned /\ arg.chain = "cometbft" /\ arg.msg # NilCanonical
       /\ arg.msg.Type \in {MsgTypePrevote, MsgTypePrecommit} =>
         /\ res.err = ""
         /\ res.msg.MessageType = NativeVote
         /\ CanonicalVoteType(IF res.msg.Payload.VoteType = "PrevoteType"
                              THEN PrevoteType ELSE PrecommitType) = arg.msg.Type


\* FromCanonical and ToCanonical of one mapper have both been called.
BackReturned == res # NoCall /\ arg.fn = "FromToCanonical"

\* The semantic fields of two canonical messages agree.
SameSemantic(m, back) ==
  /\ back.Type = m.Type
  /\ back.Height = m.Height
  /\ back.Round = m.Round
  /\ back.BlockHash = m.BlockHash
  /\ back.PrevHash = m.PrevHash
  /\ back.Proposer = m.Proposer
  /\ back.Validator = m.Validator
  /\ back.Signature = m.Signature

\* C21: for each of the three mappers and every canonical message whose type
\* the mapper lists as supported, FromCanonical and then ToCanonical succeed
\* and give back the message: type, height, round, block hash, previous hash,
\* proposer, validator and signature are equal, and so is the timestamp
\* unless the message's timestamp was the zero time.
C21_RoundTripPreserves ==
  (BackReturned /\ arg.msg.Type \in GetSupportedTypesOf(arg.chain)) =>
    /\ res.from.err = ""
    /\ res.to.err = ""
    /\ SameSemantic(arg.msg, res.to.msg)
    /\ (arg.msg.Timestamp # ZeroTime => res.to.msg.Timestamp = arg.msg.Timestamp)


\* Validate has returned for a message that is not nil.
ValidateReturned == res # NoCall /\ arg.fn = "Validate" /\ arg.msg # NilCanonical

\* The layers of the validator's rules that the message of the call violates.
RequiredViolated == validateRequiredFields(getDefaultRules(arg.chainType), arg.msg) # NoError
TypesViolated == validateFieldTypes(getDefaultRules(arg.chainType), arg.msg) # {NoError}
ConstraintsViolated ==
  validateConstraints(getDefaultRules(arg.chainType), arg.msg, arg.now) # {NoError}
CustomViolated == runCustomRules(getDefaultRules(arg.chainType), arg.msg) # NoError

\* The code of the first violated layer, "" when none is violated.
FirstLayerCode ==
  IF RequiredViolated THEN "MISSING_FIELD"
  ELSE IF TypesViolated THEN "INVALID_FIELD_TYPE"
  ELSE IF ConstraintsViolated THEN "CONSTRAINT_VIOLATION"
  ELSE IF CustomViolated THEN "CUSTOM_VALIDATION_FAILED"
  ELSE ""

\* The message of the call has chain id, height, round, timestamp and type.
AllPresent ==
  /\ arg.msg.ChainID # <<>>
  /\ arg.msg.Height # NilBig
  /\ arg.msg.Round # NilBig
  /\ arg.msg.Timestamp # ZeroTime
  /\ arg.msg.Type # <<>>

\* C22: Validate returns the error of the first violated layer in the order
\* required fields, field types, constraints, custom rules, with a field name
\* and a code, and no error when no layer is violated.  Under the CometBFT
\* rules: a nil height with a chain id gives MISSING_FIELD for "height"; with
\* all required fields present a negative height or round gives
\* CONSTRAINT_VIOLATION; with the required fields and constraints satisfied a
\* type outside proposal, prevote, precommit, block is rejected by the custom
\* rule cometbft_message_type.
C22_ValidateFailsFast ==
  ValidateReturned =>
    /\ res.Code = FirstLayerCode
    /\ (res.Code = "") = (res.Field = "")
    /\ arg.chainType = "cometbft" =>
         /\ (arg.msg.ChainID # <<>> /\ arg.msg.Height = NilBig) =>
              res = ValidationError("height", "MISSING_FIELD")
         /\ (AllPresent /\ (arg.msg.Height[3] < 0 \/ arg.msg.Round[3] < 0)) =>
              /\ res.Code = "CONSTRAINT_VIOLATION"
              /\ res.Field \in {"height", "round", "timestamp"}
         /\ ( /\ AllPresent /\ arg.msg.Height[3] >= 0 /\ arg.msg.Round[3] >= 0
              /\ arg.msg.Timestamp = ValidateTimes.fresh
              /\ arg.msg.Type \notin {MsgTypeProposal, MsgTypePrevote, MsgTypePrecommit,
                                      MsgTypeBlock} ) =>
              res = ValidationError("cometbft_message_type", "CUSTOM_VALIDATION_FAILED")
         /\ ( /\ AllPresent /\ arg.msg.Height[3] >= 0 /\ arg.msg.Round[3] >= 0
              /\ arg.msg.Timestamp = ValidateTimes.fresh
              /\ arg.msg.Type \in {MsgTypeProposal, MsgTypePrevote, MsgTypePrecommit,
                                   MsgTypeBlock} ) =>
              res = NoError

\* A CometBFT message with a negative round was refused for its constraint,
\* and one of an unsupported type by the custom rule.
C22_Witness ==
  /\ ValidateReturned
  /\ arg.chainType = "cometbft"
  /\ AllPresent
  /\ \/ (arg.msg.Round[3] < 0 /\ res = ValidationError("round", "CONSTRAINT_VIOLATION"))
     \/ res = ValidationError("cometbft_message_type", "CUSTOM_VALIDATION_FAILED")


(***************************************************************************)
(* One Metrics shared by the handlers of concurrent sessions and read by   *)
(* Snapshot (part_003).  Every atomic.Int64 Add and Load is one step.      *)
(***************************************************************************)

\* The goroutines that update the shared Metrics, and the one that calls
\* Snapshot.
Updaters == {"session1", "session2"}

\* The counters in the order the map literal of Snapshot loads them.
SnapshotKeys == <<"mutated", "dropped", "duplicated", "delayed">>

\* A call of one of the Inc methods.
Inc(method, n) == [method |-> method, n |-> n]

\* The Inc calls handleFrame makes for one triggered frame (session.go:132-171):
\* delayed and dropped; two outputs sent twice each; delayed and one output;
\* dropped alone; nothing sent (IncMutated(0) adds nothing); delayed, one
\* output sent twice.
FramePrograms ==
  { <<Inc("IncDelayed", 1), Inc("IncDropped", 1)>>,
    <<Inc("IncMutated", 4), Inc("IncDuplicated", 2)>>,
    <<Inc("IncDelayed", 1), Inc("IncMutated", 1)>>,
    <<Inc("IncDropped", 1)>>,
    <<Inc("IncMutated", 0)>>,
    <<Inc("IncDelayed", 1), Inc("IncMutated", 2), Inc("IncDuplicated", 1)>> }

\* The method applied to the Metrics.
ApplyInc(m, call) ==
  IF call.method = "IncMutated" THEN IncMutated(m, call.n)
  ELSE IF call.method = "IncDropped" THEN IncDropped(m)
  ELSE IF call.method = "IncDuplicated" THEN IncDuplicated(m, call.n)
  ELSE IncDelayed(m)

\* The values each counter has held, with those of m added.
Held(h, m) == [k \in DOMAIN h |-> h[k] \cup {m[k]}]

InitMetrics ==
  /\ EngineListening
  /\ arg = NoCall
  /\ res = NoCall
  /\ ce = <<>>
  /\ \E p \in [Updaters -> FramePrograms] :
       users = [u \in Updaters |-> [calls |-> p[u], todo |-> p[u]]]
                 @@ [reader |-> [loaded |-> <<>>]]
  /\ hist = Held([k \in DOMAIN NewMetrics |-> {}], NewMetrics)

\* One goroutine makes its next Inc call.
MetricsInc(u) ==
  /\ users[u].todo # <<>>
  /\ metrics' = ApplyInc(metrics, Head(users[u].todo))
  /\ users' = [users EXCEPT ![u].todo = Tail(@)]
  /\ hist' = Held(hist, ApplyInc(metrics, Head(users[u].todo)))
  /\ UNCHANGED <<arg, res, ce, engineVars, cfg, running, full, pc, cur, rem, cnt, recvd, out,
                 ctx, err, nerr, runPc, ret>>

\* Snapshot loads the next counter; after the last one it returns the map.
SnapshotLoad ==
  /\ res = NoCall
  /\ users' = [users EXCEPT !.reader.loaded =
                 Append(@, metrics[SnapshotKeys[Len(users.reader.loaded) + 1]])]
  /\ res' = IF Len(users.reader.loaded) + 1 = Len(SnapshotKeys)
              THEN [i \in 1..Len(SnapshotKeys) |->
                      <<SnapshotKeys[i], users'.reader.loaded[i]>>]
              ELSE NoCall
  /\ UNCHANGED <<arg, ce, hist, engineVars, sessionVars>>

NextMetrics ==
  \/ \E u \in Updaters : MetricsInc(u)
  \/ SnapshotLoad

SpecMetrics == InitMetrics /\ [][NextMetrics]_vars

\* The sum of the increments of the calls made so far to a method.
RECURSIVE SumOf(_, _)
SumOf(calls, method) ==
  IF calls = <<>> THEN 0
  ELSE (IF Head(calls).method = method THEN Head(calls).n ELSE 0) + SumOf(Tail(calls), method)

\* The calls a goroutine has made: its program without what is still to do.
Made(u) == SubSeq(users[u].calls, 1, Len(users[u].calls) - Len(users[u].todo))

\* The sum of all increments made so far to the counter of a method.
Incremented(method) == SumOf(Made("session1"), method) + SumOf(Made("session2"), method)

\* The counters are the sums of the increments made.
NoIncrementLost ==
  /\ metrics.mutated = Incremented("IncMutated")
  /\ metrics.dropped = Incremented("IncDropped")
  /\ metrics.duplicated = Incremented("IncDuplicated")
  /\ metrics.delayed = Incremented("IncDelayed")

\* The map Snapshot returned has the four keys, each with a value its
\* counter has held.
SnapshotOfHeld ==
  res # NoCall =>
    /\ {res[i][1] : i \in DOMAIN res} = {"mutated", "dropped", "duplicated", "delayed"}
    /\ Len(res) = 4
    /\ \A i \in DOMAIN res : res[i][2] \in hist[res[i][1]]

\* No step makes a counter smaller.
NeverDecreases == \A k \in DOMAIN metrics : metrics'[k] >= metrics[k]

\* C23: in every interleaving of the sessions that update the shared Metrics,
\* no counter ever decreases, every counter is the sum of the increments made
\* to it (none is lost), and Snapshot returns exactly the keys mutated,
\* dropped, duplicated and delayed, each with a value its counter has held.
C23_CountersMonotoneAndExact ==
  [](NoIncrementLost /\ SnapshotOfHeld) /\ [][NeverDecreases]_vars

\* Both sessions have made all their calls, which overlapped with a Snapshot
\* that returned a value that is no longer current.
C23_Witness ==
  /\ users # <<>>
  /\ \A u \in Updaters : users[u].todo = <<>>
  /\ res # NoCall
  /\ \E i \in DOMAIN res : res[i][2] # metrics[res[i][1]]
  /\ metrics.mutated > 4


\* NewConfig has returned.
NewConfigReturned == res # NoCall /\ arg.fn = "NewConfig"

\* The address is empty or blank, or has "://" without a scheme or a host.
BadAddress(raw) == parseNetworkAddress(raw).err # ""

\* The text has no "://".
NoScheme(raw) == SchemeMarks(raw) = {}

\* The options NewConfig must refuse: no node key, an empty or blank chain
\* id, a bad listen or upstream address, a direction that is none of the
\* three.
MustFail(opts) ==
  \/ opts.NodeKey = <<>>
  \/ TrimSpace(opts.ChainID) = <<>>
  \/ BadAddress(opts.ListenAddress)
  \/ BadAddress(opts.UpstreamTarget)
  \/ opts.Direction \notin {DirectionUpstream, DirectionDownstream, DirectionBoth}

\* What a Config returned by NewConfig holds.
Normalised(opts, config) ==
  /\ NoScheme(opts.ListenAddress) => config.ListenNetwork = <<"t","c","p">>
  /\ NoScheme(opts.UpstreamTarget) => config.UpstreamNetwork = <<"t","c","p">>
  /\ config.DialTimeout = IF opts.DialTimeout <= 0 THEN 5 * Second ELSE opts.DialTimeout
  /\ config.Trigger.Step = ToLower(config.Trigger.Step)
  /\ \A i \in DOMAIN config.Trigger.Step : config.Trigger.Step[i] \notin {"P", "V"}

\* C24: NewConfig returns an error and no Config when the node key is
\* missing, the chain id is empty or blank, the listen or the upstream
\* address is empty or malformed, or the direction is not one of upstream,
\* downstream and both; otherwise it returns a Config whose networks are
\* "tcp" for an address without a scheme, whose dial timeout is 5 seconds
\* when the given one is not positive, and whose trigger step is lower-cased.
C24_NewConfigValidates ==
  NewConfigReturned =>
    IF MustFail(arg.opts)
      THEN res.err # "" /\ res.cfg = <<>>
      ELSE res.err = "" /\ Normalised(arg.opts, res.cfg)


\* The handler of d enters the sleep of the delay hook in this step, and
\* leaves it.
EntersSleep(d) == pc[d] # "sleep" /\ pc'[d] = "sleep"
LeavesSleep(d) == pc[d] = "sleep" /\ pc'[d] # "sleep"

\* The handler of d ends the frame it is on in this step, after its last
\* Send or on the decision not to forward it.
EndsFrame(d) == pc'[d] = "idle" /\ (pc[d] # "idle" \/ Arrives(d))

\* While a frame waits in the sleep nothing has been sent for it, the
\* delayed counter has counted it, and with only a delay hook and action
\* none every frame the handler is done with was sent exactly once.
DelayedFrameState ==
  \A d \in Dirs :
    /\ pc[d] = "sleep" =>
         /\ cfg.Hooks.Delay > 0
         /\ IsTriggered(d, cur[d].frame)
         /\ SendsOf(d, Len(recvd[d])) = <<>>
         /\ metrics.delayed >= 1
    /\ ( /\ cfg.Action = ByzantineActionNone /\ cfg.Hooks.Delay > 0
         /\ ~cfg.Hooks.Drop /\ ~cfg.Hooks.Duplicate ) =>
         \A i \in 1..Len(recvd[d]) : Handled(d, i) => Len(SendsOf(d, i)) = 1

\* The steps of the delay hook and of the counters.
DelayedFrameStep ==
  /\ \A d \in Dirs :
       /\ (Arrives(d) /\ IsTriggered(d, NewFrame(d)) /\ cfg.Hooks.Delay > 0) =>
            /\ EntersSleep(d)
            /\ metrics'.delayed = metrics.delayed + 1
            /\ metrics'.dropped = metrics.dropped
            /\ out' = out
       /\ EntersSleep(d) => Arrives(d) /\ IsTriggered(d, NewFrame(d))
       /\ (LeavesSleep(d) /\ cfg.Hooks.Drop) =>
            /\ metrics'.dropped = metrics.dropped + 1
            /\ metrics'.delayed = metrics.delayed
            /\ out' = out
            /\ pc'[d] = "idle"
       /\ pc[d] = "sleep" => out'[Opposite(d)] = out[Opposite(d)] \/ LeavesSleep(d)
  /\ metrics'.delayed # metrics.delayed =>
       /\ metrics'.delayed = metrics.delayed + 1
       /\ \E d \in Dirs : EntersSleep(d)
  /\ metrics'.dropped # metrics.dropped =>
       /\ out' = out
       /\ \E d \in Dirs : EndsFrame(d) /\ SendsOf(d, Len(recvd'[d])) = <<>>
  /\ (metrics'.mutated # metrics.mutated \/ metrics'.duplicated # metrics.duplicated) =>
       /\ out' = out
       /\ \E d \in Dirs : pc[d] = "count" /\ EndsFrame(d)

\* C25: a triggered frame under Hooks.Delay > 0 adds one to the delayed
\* counter when its sleep begins and never again, and nothing is sent for it
\* before the sleep ends; the drop decision comes after the sleep, so with
\* Delay and Drop the frame adds one to delayed, sleeps, adds one to dropped
\* and is not sent.  The mutated, duplicated and dropped counters change only
\* in the step that ends a frame, after its last Send or on the decision not
\* to forward it.  With action none and only the delay hook every frame is
\* sent to the opposite side exactly once.
C25_DelayThenDecide == []DelayedFrameState /\ [][DelayedFrameStep]_vars

\* With Delay and Drop a frame has slept and was dropped; or with the delay
\* hook alone and action none a triggered frame has slept and was sent once.
C25_Witness ==
  /\ cfg.Hooks.Delay > 0
  /\ \E d \in Dirs :
       /\ Handled(d, 1)
       /\ IsTriggered(d, recvd[d][1])
       /\ metrics.delayed = 1
       /\ \/ cfg.Hooks.Drop /\ metrics.dropped = 1 /\ SendsOf(d, 1) = <<>>
          \/ /\ cfg.Action = ByzantineActionNone /\ ~cfg.Hooks.Drop /\ ~cfg.Hooks.Duplicate
             /\ Len(SendsOf(d, 1)) = 1 /\ metrics.mutated = 1


\* chooseAlternateHash has returned.
HashReturned == res # NoCall /\ arg.fn = "chooseAlternateHash"

\* The characters the perturbation replaces, and what it puts for each.
Perturbable == {"0", "1", "a", "A", "f", "F"}
Replacement(c) ==
  IF c = "0" THEN "1"
  ELSE IF c = "1" THEN "0"
  ELSE IF c \in {"a", "A"} THEN "b"
  ELSE IF c \in {"f", "F"} THEN "e"
  ELSE c

\* hash is original with the character at i replaced and no other changed,
\* and no character after i is one the perturbation replaces.
ReplacedAt(original, hash, i) ==
  /\ original[i] \in Perturbable
  /\ \A j \in (i + 1)..Len(original) : original[j] \notin Perturbable
  /\ Len(hash) = Len(original)
  /\ hash[i] = Replacement(original[i])
  /\ \A k \in 1..Len(original) : k # i => hash[k] = original[k]

\* C26: without an override chooseAlternateHash returns a text different
\* from the original: 64 zeros for the empty text; else the original with
\* the last of its characters among 0, 1, a, A, f, F replaced (0 by 1, 1 by
\* 0, a and A by b, f and F by e) and all others unchanged; or, with no such
\* character, the original with "0" appended.  An override is returned as
\* it is.
C26_AlternateHashDiffers ==
  HashReturned =>
    IF arg.provided # <<>> THEN res.hash = arg.provided
    ELSE
      /\ res.hash # arg.original
      /\ arg.original = <<>> =>
           Len(res.hash) = 64 /\ \A i \in 1..64 : res.hash[i] = "0"
      /\ arg.original # <<>> =>
           IF \E i \in 1..Len(arg.original) : arg.original[i] \in Perturbable
             THEN \E i \in 1..Len(arg.original) : ReplacedAt(arg.original, res.hash, i)
             ELSE res.hash = arg.original \o <<"0">>

\* The last character was left alone and the one before it replaced.
C26_Witness ==
  /\ HashReturned
  /\ arg.original = <<"9", "A", "x">>
  /\ res.hash = <<"9", "b", "x">>


(***************************************************************************)
(* The ConsensusEngine simulator (cometbft/consensus_engine.go).           *)
(***************************************************************************)

\* Validator, and the zero Validator.
Validator(address, power, priority) ==
  [Address |-> address, VotingPower |-> power, ProposerPriority |-> priority]
ZeroValidator == Validator(<<>>, 0, 0)

\* The loop of NewConsensusEngine over the validators: the proposer found so
\* far is replaced by a validator of strictly higher priority.
RECURSIVE HighestPriority(_, _)
HighestPriority(validators, proposer) ==
  IF validators = <<>> THEN proposer
  ELSE HighestPriority(Tail(validators),
         IF Head(validators).ProposerPriority > proposer.ProposerPriority
           THEN Head(validators) ELSE proposer)

\* ConsensusEngine with its ConsensusState (the times, the total power and
\* the last commit are left out); validators is the key set of the map.
ConsensusEngine(height, round, step, validators, proposerOfSet, proposer) ==
  [state |-> [Height |-> height, Round |-> round, Step |-> step,
              Validators |-> [Validators |-> validators, Proposer |-> proposerOfSet]],
   validators |-> {validators[i].Address : i \in 1..Len(validators)},
   proposer |-> proposer]

\* NewConsensusEngine
NewConsensusEngine(validators) ==
  ConsensusEngine(0, 0, 0, validators, HighestPriority(validators, ZeroValidator),
                  HighestPriority(validators, ZeroValidator).Address)

\* ConsensusEngine.updateProposer
updateProposer(e) ==
  IF Len(e.state.Validators.Validators) = 0 THEN e
  ELSE [e EXCEPT
          !.proposer = e.state.Validators.Validators[
                         (e.state.Round % Len(e.state.Validators.Validators)) + 1].Address,
          !.state.Validators.Proposer = e.state.Validators.Validators[
                         (e.state.Round % Len(e.state.Validators.Validators)) + 1]]

\* ConsensusEngine.AdvanceRound
AdvanceRound(e) == updateProposer([e EXCEPT !.state.Round = @ + 1, !.state.Step = 0])

\* ConsensusEngine.AdvanceHeight
AdvanceHeight(e, height) ==
  updateProposer([e EXCEPT !.state.Height = height, !.state.Round = 0, !.state.Step = 0])

\* What ProcessMessage returns and the engine after it; "" is the nil error,
\* "panic" the nil dereference of msg.Height.Cmp or msg.Round.Cmp.
Processed(text, e) == [err |-> text, ce |-> e]

\* The checks of height and round every process function makes, then its
\* update of the step.
CheckHeightRound(e, msg, updated) ==
  IF msg.Height = NilBig THEN Processed("panic", e)
  ELSE IF msg.Height # Big(e.state.Height) THEN Processed("invalid height", e)
  ELSE IF msg.Round = NilBig THEN Processed("panic", e)
  ELSE IF msg.Round # Big(e.state.Round) THEN Processed("invalid round", e)
  ELSE Processed("", updated)

\* ConsensusEngine.processProposal
processProposal(e, msg) ==
  IF msg.Proposer # e.proposer THEN Processed("invalid proposer", e)
  ELSE CheckHeightRound(e, msg, [e EXCEPT !.state.Step = 1])

\* ConsensusEngine.processPrevote
processPrevote(e, msg) ==
  IF msg.Validator \notin e.validators THEN Processed("unknown validator", e)
  ELSE CheckHeightRound(e, msg, IF e.state.Step < 2 THEN [e EXCEPT !.state.Step = 2] ELSE e)

\* ConsensusEngine.processPrecommit
processPrecommit(e, msg) ==
  IF msg.Validator \notin e.validators THEN Processed("unknown validator", e)
  ELSE CheckHeightRound(e, msg, IF e.state.Step < 3 THEN [e EXCEPT !.state.Step = 3] ELSE e)

\* ConsensusEngine.processBlockPart
processBlockPart(e, msg) == CheckHeightRound(e, msg, e)

\* ConsensusEngine.ProcessMessage
ProcessMessage(e, msg) ==
  IF msg.Type = MsgTypeProposal THEN processProposal(e, msg)
  ELSE IF msg.Type = MsgTypePrevote THEN processPrevote(e, msg)
  ELSE IF msg.Type = MsgTypePrecommit THEN processPrecommit(e, msg)
  ELSE IF msg.Type = MsgTypeBlock THEN processBlockPart(e, msg)
  ELSE Processed("unsupported message type", e)

\* ConsensusEngine.IsConsensusReached
IsConsensusReached(e) == e.state.Step >= 3

\* ConsensusEngine.IsValidProposer
IsValidProposer(e, address) == address = e.proposer

\* The rounds and heights the simulator is driven to.
MaxRound == 3
MaxHeight == 2

\* The validator lists the engine is made with: equal priorities, the highest
\* priority at the second validator, at the first, and no validator.
ValidatorLists ==
  { <<Validator(<<"A">>, 10, 0), Validator(<<"B">>, 10, 0)>>,
    <<Validator(<<"A">>, 10, 1), Validator(<<"B">>, 10, 5), Validator(<<"C">>, 10, 0)>>,
    <<Validator(<<"A">>, 10, 5), Validator(<<"B">>, 10, 1)>>,
    <<>> }

\* The messages given to ProcessMessage: the four types and one the engine
\* does not process, from a validator of the set or an unknown one, for
\* heights and rounds at and off the engine's, and without a height.
EngineMessages ==
  {Canonical(t, h, r, 100, <<"a","b">>, <<>>, who, who, <<"s","1">>) :
     t \in {MsgTypeProposal, MsgTypePrevote, MsgTypePrecommit, MsgTypeBlock, MsgTypeVote},
     h \in {NilBig} \cup {Big(n) : n \in 0..1},
     r \in {Big(n) : n \in 0..1},
     who \in {<<"A">>, <<"B">>, <<"Z">>}}

InitConsensus ==
  /\ EngineListening
  /\ arg = NoCall
  /\ res = NoCall
  /\ users = <<>>
  /\ hist = <<>>
  /\ \E validators \in ValidatorLists : ce = NewConsensusEngine(validators)

\* ce.ProcessMessage(msg)
CallProcessMessage ==
  /\ \E msg \in EngineMessages :
       /\ arg' = [fn |-> "ProcessMessage", msg |-> msg]
       /\ res' = [err |-> ProcessMessage(ce, msg).err]
       /\ ce' = ProcessMessage(ce, msg).ce
  /\ UNCHANGED <<users, hist, sessionVars, engineVars>>

\* ce.AdvanceRound()
CallAdvanceRound ==
  /\ ce.state.Round < MaxRound
  /\ arg' = [fn |-> "AdvanceRound"]
  /\ res' = [err |-> ""]
  /\ ce' = AdvanceRound(ce)
  /\ UNCHANGED <<users, hist, sessionVars, engineVars>>

\* ce.AdvanceHeight(height)
CallAdvanceHeight ==
  /\ \E height \in 0..MaxHeight :
       /\ arg' = [fn |-> "AdvanceHeight", height |-> height]
       /\ ce' = AdvanceHeight(ce, height)
  /\ res' = [err |-> ""]
  /\ UNCHANGED <<users, hist, sessionVars, engineVars>>

NextConsensus ==
  \/ CallProcessMessage
  \/ CallAdvanceRound
  \/ CallAdvanceHeight

SpecConsensus == InitConsensus /\ [][NextConsensus]_vars

\* The validators the engine was made with.
ValidatorsOf(e) == e.state.Validators.Validators

\* The validator whose turn it is in the engine's round.
RoundRobin(e) == ValidatorsOf(e)[(e.state.Round % Len(ValidatorsOf(e))) + 1]

\* C27: in every state of the simulator with a non-empty validator list,
\* after NewConsensusEngine and any calls of AdvanceRound, AdvanceHeight and
\* ProcessMessage, the current proposer is the validator at index round mod
\* the number of validators, and that validator is the one IsValidProposer
\* and processProposal accept.
C27_ProposerIsRoundRobin ==
  ValidatorsOf(ce) # <<>> =>
    /\ ce.proposer = RoundRobin(ce).Address
    /\ ce.state.Validators.Proposer = RoundRobin(ce)
    /\ \A i \in 1..Len(ValidatorsOf(ce)) :
         IsValidProposer(ce, ValidatorsOf(ce)[i].Address) = (ValidatorsOf(ce)[i] = RoundRobin(ce))
    /\ \A msg \in EngineMessages :
         (msg.Type = MsgTypeProposal /\ ProcessMessage(ce, msg).err # "invalid proposer")
           => msg.Proposer = RoundRobin(ce).Address


\* The step is a call of ProcessMessage.
ProcessMessageStep == arg'.fn = "ProcessMessage" /\ <<arg, res, ce>>' # <<arg, res, ce>>

\* The call returned an error and left height, round, step and proposer as
\* they were.
ErrorLeavesState ==
  res'.err # "" =>
    /\ ce'.state.Height = ce.state.Height
    /\ ce'.state.Round = ce.state.Round
    /\ ce'.state.Step = ce.state.Step
    /\ ce'.proposer = ce.proposer

\* C30: a ProcessMessage call never lowers the Step (height and round stay as
\* they are), so IsConsensusReached stays true once it is, until AdvanceRound
\* or AdvanceHeight is called; and a ProcessMessage call that returns an error
\* (unknown validator, wrong proposer, wrong height or round, unsupported
\* type) leaves height, round, step and proposer unchanged.
C30_StepNeverDecreases ==
  [][ProcessMessageStep =>
       /\ ce'.state.Height = ce.state.Height
       /\ ce'.state.Round = ce.state.Round
       /\ ce'.state.Step >= ce.state.Step
       /\ IsConsensusReached(ce) => IsConsensusReached(ce')
       /\ ErrorLeavesState]_vars


\* The frames the handlers are done with for which no Send was made.
Unsent == {x \in Dirs \X (1..MaxFrames) : Handled(x[1], x[2]) /\ SendsOf(x[1], x[2]) = <<>>}

\* C28: no frame is lost silently.  For every frame, on any channel and in
\* either direction, that its handler is done with, at least one Send to the
\* opposite side was made, or the drop hook was applied to it: Hooks.Drop is
\* set, the frame was triggered and the dropped counter has counted it.  No
\* path through decoding, conversion, trigger, mutation or re-encoding ends
\* without a Send.
C28_NoSilentLoss ==
  /\ \A d \in Dirs : \A i \in 1..Len(recvd[d]) :
       Handled(d, i) =>
         \/ SendsOf(d, i) # <<>>
         \/ cfg.Hooks.Drop /\ IsTriggered(d, recvd[d][i])
  /\ metrics.dropped = Cardinality(Unsent)

\* A consensus frame in a selected direction whose decoding or conversion
\* failed is done and was forwarded to the opposite side.
C28_Witness ==
  \E d \in Dirs : \E i \in 1..Len(recvd[d]) :
    /\ Handled(d, i)
    /\ SendsOf(d, i) # <<>>
    /\ Selected(d)
    /\ ConsensusCh(recvd[d][i].ch)
    /\ BeforeHooks(cfg, recvd[d][i].payload).outcome = "error"

\* The frame the handler of d works on in this step.
FrameOfStep(d) == IF Arrives(d) THEN NewFrame(d) ELSE cur[d].frame

\* The handler of d takes this step.
HandlerActs(d) == Arrives(d) \/ pc'[d] # pc[d]

\* C29: every Send the session makes for an inbound frame goes to the
\* opposite connection and uses the channel of that frame: a step of the
\* handler of one connection adds no Send to its own connection, and every
\* Send it adds to the other one, raw forward, mutated output or duplicate,
\* carries the channel id of the frame it handles.
C29_OppositeSideSameChannel ==
  [][\A d \in Dirs :
       HandlerActs(d) =>
         /\ out'[d] = out[d]
         /\ \A k \in 1..Len(AddedSends(d)) :
              /\ AddedSends(d)[k].ch = FrameOfStep(d).ch
              /\ AddedSends(d)[k].src = Len(recvd'[d])
              /\ AddedSends(d)[k].kind \in {"raw", "out", "dup"}
         /\ SubSeq(out'[Opposite(d)], 1, Len(out[Opposite(d)])) = out[Opposite(d)]]_vars

\* Both connections have received frames on different channels, and a
\* mutated output and its duplicate were sent for one of them.
C29_Witness ==
  /\ \A d \in Dirs : out[d] # <<>>
  /\ \E d \in Dirs : \E k \in 1..Len(out[d]) : out[d][k].kind = "dup"
  /\ \E d \in Dirs : \E k \in 1..Len(out[d]) : out[d][k].kind = "raw"

====
